---------------------------- MODULE Spec2Model ----------------------------
(***************************************************************************)
(* Model of the binding-site evaluation core of GrASP                      *)
(* (src/multisite_metrics_quantile_test.py).                               *)
(*                                                                         *)
(* Geometry is modelled on a line: every coordinate is an integer, in      *)
(* units of the numerical floor 1e-5 of volumetric_overlap, so that the    *)
(* Euclidean distance sqrt(sum((a-b)**2)) is |a-b|, a convex hull is the   *)
(* interval [lo, hi] of its points, its volume is hi-lo and its facet      *)
(* equations are x - hi <= 0 and -x + lo <= 0.  The code's rule that a     *)
(* hull needs four points is kept as the code states it.  Real numbers     *)
(* that the code computes by division are exact rationals n/d.             *)
(* Probabilities are integers in tenths.                                   *)
(***************************************************************************)
EXTENDS Integers, Sequences, FiniteSets, TLC

(***************************************************************************)
(* Bounds of the model and constants of the program.                       *)
(***************************************************************************)
\* number of protein atoms of the modelled structure
MaxAtoms ==
    5

\* threshold=.5 (tenths)
THRESHOLD ==
    5

\* min_samples=5 of cluster_atoms_DBSCAN
MIN_SAMPLES ==
    5

\* a convex hull needs four points
HULL_MIN_POINTS ==
    4

\* radius <= 1e-5, in units of 1e-5
RADIUS_FLOOR ==
    1

Atoms == 1 .. MaxAtoms

\* positive-class probabilities (column 1 of predicted_probs), in tenths
ProbValues == {4, 5, 7, 9}

\* the distance parameters tried: one between the atom spacing and twice the
\* spacing, one larger than every pairwise distance of the structure
EpsValues == {3, 2 * MaxAtoms}

Methods == {"meanshift", "dbscan", "louvain", "linkage"}

ScoreTypes == {"mean", "sum", "square"}

CentroidTypes == {"hull", "prob", "square"}

\* prot_coords: atom i sits at 2*i
ProtCoords == [i \in Atoms |-> 2 * i]

(***************************************************************************)
(* Exact rationals and NaN.                                                *)
(***************************************************************************)
RECURSIVE GCD(_, _)
GCD(a, b) ==
    IF b = 0 THEN a ELSE GCD(b, a % b)

Abs(x) ==
    IF x < 0 THEN -x ELSE x

Rat(n, d) ==
    LET s == IF d < 0 THEN -1 ELSE 1
        g == GCD(Abs(n), Abs(d))
    IN  [nan |-> FALSE, n |-> (s * n) \div g, d |-> (s * d) \div g]

Int2Rat(x) ==
    [nan |-> FALSE, n |-> x, d |-> 1]

NaN ==
    [nan |-> TRUE, n |-> 0, d |-> 1]

RatLess(a, b) ==
    a.n * b.d < b.n * a.d

RatLE(a, b) ==
    a.n * b.d <= b.n * a.d

RatSub(a, b) ==
    Rat(a.n * b.d - b.n * a.d, a.d * b.d)

RatAbs(a) ==
    [nan |-> FALSE, n |-> Abs(a.n), d |-> a.d]

\* np.sqrt(np.sum((a - b)**2)) on a line
Dist(a, b) ==
    RatAbs(RatSub(a, b))

(***************************************************************************)
(* numpy helpers.                                                          *)
(***************************************************************************)
RECURSIVE SumSeq(_)
SumSeq(s) ==
    IF s = <<>> THEN 0 ELSE Head(s) + SumSeq(Tail(s))

Range(s) ==
    {s[i] : i \in DOMAIN s}

SetMin(S) ==
    CHOOSE x \in S : \A y \in S : x <= y

SetMax(S) ==
    CHOOSE x \in S : \A y \in S : x >= y

\* np.unique: the distinct values, ascending
RECURSIVE SortedSeq(_)
SortedSeq(S) ==
    IF S = {} THEN <<>> ELSE <<SetMin(S)>> \o SortedSeq(S \ {SetMin(S)})

np_unique(arr) ==
    SortedSeq(Range(arr))

\* arr[mask] with a boolean mask of the same length
BoolIndex(arr, mask) ==
    LET idx == SortedSeq({i \in DOMAIN mask : mask[i]})
    IN  [k \in 1 .. Len(idx) |-> arr[idx[k]]]

Reverse(s) ==
    [i \in 1 .. Len(s) |-> s[Len(s) + 1 - i]]

\* np.argsort(c_probs): every order that sorts the scores ascending, as 0-based
\* indices; the order of equal scores is left to the sort
RECURSIVE ArgSortFrom(_, _)
ArgSortFrom(scores, rest) ==
    IF rest = {} THEN {<<>>}
    ELSE UNION {{<<i - 1>> \o t : t \in ArgSortFrom(scores, rest \ {i})} :
                i \in {j \in rest : \A l \in rest : RatLE(scores[j], scores[l])}}

\* descending instead of ascending order
np_argsort_descending(scores) ==
    {Reverse(o) : o \in ArgSortFrom(scores, DOMAIN scores)}

np_argsort(scores) ==
    ArgSortFrom(scores, DOMAIN scores)

(***************************************************************************)
(* sort_clusters                                                           *)
(***************************************************************************)
\* the aggregate score of the atoms selected by sel among the candidate probs
ClusterScore(cand_probs, sel, score_type) ==
    LET ps == BoolIndex(cand_probs, sel)
    IN  CASE score_type = "mean" -> Rat(SumSeq(ps), Len(ps))
          [] score_type = "sum" -> Int2Rat(SumSeq(ps))
          [] score_type = "square" -> Int2Rat(SumSeq([i \in DOMAIN ps |-> ps[i] * ps[i]]))

\* c_probs: one score per non-negative unique id, in ascending id order
ClusterProbs(cluster_ids, cand_probs, score_type) ==
    LET ids == SortedSeq({c \in Range(cluster_ids) : c >= 0})
    IN  [j \in DOMAIN ids |->
            ClusterScore(cand_probs, [a \in DOMAIN cluster_ids |-> cluster_ids[a] = ids[j]],
                         score_type)]

\* the relabelling loop: sorted_ids[cluster_ids == c_order[new_c]] = new_c
Relabel(cluster_ids, c_order) ==
    [a \in DOMAIN cluster_ids |->
        IF \E new_c \in DOMAIN c_order : c_order[new_c] = cluster_ids[a]
        THEN SetMax({new_c \in DOMAIN c_order : c_order[new_c] = cluster_ids[a]}) - 1
        ELSE -1]

\* every array sort_clusters can return, or the IndexError of a boolean index
\* whose length differs from the array it indexes
sort_clusters(cluster_ids, probs, labels, score_type) ==
    LET cand_probs == BoolIndex(probs, labels)
        has_ids == \E a \in DOMAIN cluster_ids : cluster_ids[a] >= 0
    IN  IF has_ids /\ Len(cand_probs) # Len(cluster_ids)
        THEN {[raised |-> "IndexError", ids |-> <<>>]}
        ELSE {[raised |-> "", ids |-> Relabel(cluster_ids, c_order)] :
                c_order \in np_argsort(ClusterProbs(cluster_ids, cand_probs, score_type))}

(***************************************************************************)
(* The clustering backends (library code, modelled by what they compute).  *)
(* Every backend numbers its clusters 0..k-1.  DBSCAN, MeanShift and       *)
(* AgglomerativeClustering number them the same way in every run;          *)
(* louvain_communities is called without a seed and lists its communities  *)
(* in an order that depends on the shuffle of the nodes.                   *)
(***************************************************************************)
\* the members of nodes reachable from R along the edges E
RECURSIVE Reach(_, _)
Reach(E, R) ==
    LET more == R \cup {e[2] : e \in {f \in E : f[1] \in R}}
    IN  IF more = R THEN R ELSE Reach(E, more)

\* one label per entry of the ascending node list: the connected component of
\* the node, components numbered by their smallest node
ComponentLabels(nodes, E) ==
    LET seq == SortedSeq(nodes)
        firsts == {SetMin(Reach(E, {u})) : u \in nodes}
    IN  [k \in DOMAIN seq |->
            Cardinality({f \in firsts : f < SetMin(Reach(E, {seq[k]}))})]

\* DBSCAN(eps, min_samples).fit(coords).labels_
RECURSIVE DbscanLoop(_, _, _, _, _)
DbscanLoop(coords, eps, min_samples, i, labels) ==
    LET n == Len(coords)
        Nbrs(u) == {v \in 1 .. n : Abs(coords[u] - coords[v]) <= eps}
        core(u) == Cardinality(Nbrs(u)) >= min_samples
        label_num == IF \A a \in 1 .. n : labels[a] = -1 THEN 0
                     ELSE SetMax(Range(labels)) + 1
        E == {<<u, v>> \in (1 .. n) \X (1 .. n) :
                core(u) /\ v \in Nbrs(u) /\ labels[v] = -1}
        grown == Reach(E, {i})
    IN  IF i > n THEN labels
        ELSE IF labels[i] # -1 \/ ~core(i)
             THEN DbscanLoop(coords, eps, min_samples, i + 1, labels)
             ELSE DbscanLoop(coords, eps, min_samples, i + 1,
                     [a \in 1 .. n |-> IF a \in grown THEN label_num ELSE labels[a]])

DBSCAN(coords, eps, min_samples) ==
    DbscanLoop(coords, eps, min_samples, 1, [a \in DOMAIN coords |-> -1])

\* AgglomerativeClustering(n_clusters=None, linkage='single',
\* distance_threshold=eps): clusters are merged while their distance is below
\* the threshold
\* no two atoms are ever linked
AgglomerativeClustering_unlinked(coords, distance_threshold) ==
    ComponentLabels(1 .. Len(coords), {})

AgglomerativeClustering(coords, distance_threshold) ==
    LET n == Len(coords)
        E == {<<u, v>> \in (1 .. n) \X (1 .. n) :
                u # v /\ Abs(coords[u] - coords[v]) < distance_threshold}
    IN  ComponentLabels(1 .. n, E)

\* adj_matrix: the stored pairwise distances of the structure's atoms
adj_matrix(all_coords) ==
    [e \in {f \in (DOMAIN all_coords) \X (DOMAIN all_coords) : f[1] # f[2]} |->
        Abs(all_coords[e[1]] - all_coords[e[2]])]

\* louvain_communities(G, resolution=0.05, weight=None), seed=None: the set of
\* label arrays it can return.  Joining two communities linked by an edge
\* gains at least 1/m - resolution/2 > 0 in a graph of m < 40 edges, so the
\* communities are the connected components.  Every node starts as the
\* community at its own place in the list and nodes are moved, in shuffled
\* order, into the community of a neighbour; a component ends at the place of
\* one of its nodes (reps holds that node of each component), and the
\* communities are listed in the order of these places.
louvain_communities(nodes, E) ==
    LET seq == SortedSeq(nodes)
        comp(u) == Reach(E, {u})
        comps == {comp(u) : u \in nodes}
    IN  {[k \in DOMAIN seq |->
            Cardinality({r \in reps : r < CHOOSE x \in reps : x \in comp(seq[k])})] :
         reps \in {R \in SUBSET nodes : \A c \in comps : Cardinality(R \cap c) = 1}}

\* estimate_bandwidth(coords, quantile=0.3): the mean distance of a point to
\* its max(1, int(n*0.3))-th nearest neighbour, the point itself included
estimate_bandwidth(coords) ==
    LET n == Len(coords)
        k == IF (3 * n) \div 10 < 1 THEN 1 ELSE (3 * n) \div 10
        kth(i) == SetMin({d \in {Abs(coords[i] - coords[j]) : j \in 1 .. n} :
                    Cardinality({j \in 1 .. n : Abs(coords[i] - coords[j]) <= d}) >= k})
    IN  Rat(SumSeq([i \in 1 .. n |-> kth(i)]), n)

\* MeanShift(bandwidth=bw, cluster_all=False).fit(coords).labels_, as the set
\* of label arrays it can return.  A bandwidth of 0 is replaced by 1e-17: the
\* kernel of a point then holds only the points at the same place, and the
\* centres are numbered from the largest coordinate down.  For a positive
\* bandwidth every labelling with ids 0..k-1 and noise -1 is allowed.
MeanShift(coords, bw) ==
    LET n == Len(coords)
    IN  IF bw.n = 0
        THEN {[a \in 1 .. n |-> Cardinality({c \in Range(coords) : c > coords[a]})]}
        ELSE {l \in [1 .. n -> -1 .. n - 1] :
                \A c \in 0 .. n - 1 :
                    (c \in Range(l) /\ c > 0) => (c - 1) \in Range(l)}

(***************************************************************************)
(* The four clustering functions.  Each returns the set of its possible    *)
(* results: raised names the error raised ("" for none), none tells that   *)
(* (None, None, None) was returned.                                        *)
(***************************************************************************)
ClusterNone ==
    [raised |-> "", none |-> TRUE, cluster_ids |-> <<>>, bind_coords |-> <<>>,
     sorted_ids |-> <<>>, all_ids |-> <<>>]

ClusterRaise(err) ==
    [raised |-> err, none |-> FALSE, cluster_ids |-> <<>>, bind_coords |-> <<>>,
     sorted_ids |-> <<>>, all_ids |-> <<>>]

\* all_ids = -1*np.ones(predicted_labels.shape); all_ids[predicted_labels] = sorted_ids
\* the array started at zero instead of -1
AllIds_from_zeros(predicted_labels, sorted_ids) ==
    LET idx == SortedSeq({i \in DOMAIN predicted_labels : predicted_labels[i]})
    IN  [i \in DOMAIN predicted_labels |->
            IF predicted_labels[i]
            THEN sorted_ids[IF Len(sorted_ids) = 1 THEN 1
                            ELSE CHOOSE k \in DOMAIN idx : idx[k] = i]
            ELSE 0]

AllIds(predicted_labels, sorted_ids) ==
    LET idx == SortedSeq({i \in DOMAIN predicted_labels : predicted_labels[i]})
    IN  [i \in DOMAIN predicted_labels |->
            IF predicted_labels[i]
            THEN sorted_ids[IF Len(sorted_ids) = 1 THEN 1
                            ELSE CHOOSE k \in DOMAIN idx : idx[k] = i]
            ELSE -1]

\* the common tail of the clustering functions: rank the clusters and spread
\* the ranks over the structure
RankAndReturn(all_coords, probs, predicted_labels, cluster_ids, score_type) ==
    {IF s.raised # "" THEN ClusterRaise(s.raised)
     ELSE IF Len(s.ids) # Len(BoolIndex(probs, predicted_labels)) /\ Len(s.ids) # 1
          THEN ClusterRaise("ValueError")
          ELSE [raised |-> "", none |-> FALSE, cluster_ids |-> cluster_ids,
                bind_coords |-> BoolIndex(all_coords, predicted_labels),
                sorted_ids |-> s.ids,
                all_ids |-> AllIds(predicted_labels, s.ids)] :
        s \in sort_clusters(cluster_ids, probs, predicted_labels, score_type)}

\* the single predicted atom: sorted_ids = [0]
SingleAtom(all_coords, predicted_labels) ==
    [raised |-> "", none |-> FALSE, cluster_ids |-> <<>>,
     bind_coords |-> BoolIndex(all_coords, predicted_labels),
     sorted_ids |-> <<0>>,
     all_ids |-> AllIds(predicted_labels, <<0>>)]

PredictedLabels(probs, threshold) ==
    [i \in DOMAIN probs |-> probs[i] > threshold]

NumTrue(mask) ==
    Cardinality({i \in DOMAIN mask : mask[i]})

cluster_atoms(all_coords, probs, threshold, score_type) ==
    LET predicted_labels == PredictedLabels(probs, threshold)
        bind_coords == BoolIndex(all_coords, predicted_labels)
    IN  IF NumTrue(predicted_labels) = 0 THEN {ClusterNone}
        ELSE IF Len(bind_coords) # 1
             THEN UNION {RankAndReturn(all_coords, probs, predicted_labels, cluster_ids,
                                       score_type) :
                          cluster_ids \in MeanShift(bind_coords, estimate_bandwidth(bind_coords))}
             ELSE {SingleAtom(all_coords, predicted_labels)}

cluster_atoms_DBSCAN(all_coords, probs, threshold, eps, score_type) ==
    LET predicted_labels == PredictedLabels(probs, threshold)
        bind_coords == BoolIndex(all_coords, predicted_labels)
    IN  IF NumTrue(predicted_labels) = 0 THEN {ClusterNone}
        ELSE IF Len(bind_coords) # 1
             THEN RankAndReturn(all_coords, probs, predicted_labels,
                                DBSCAN(bind_coords, eps, MIN_SAMPLES), score_type)
             ELSE {SingleAtom(all_coords, predicted_labels)}

\* the nodes the graph keeps: remove = [node ... if probability < threshold]
LouvainNodes(probs, threshold) ==
    {i \in DOMAIN probs : ~(probs[i] < threshold)}

cluster_atoms_louvain(all_coords, adj, probs, threshold, cutoff, score_type) ==
    LET predicted_labels == PredictedLabels(probs, threshold)
        nodes == LouvainNodes(probs, threshold)
        E == {e \in DOMAIN adj : e[1] \in nodes /\ e[2] \in nodes /\ ~(adj[e] > cutoff)}
    IN  UNION {RankAndReturn(all_coords, probs, predicted_labels, cluster_ids, score_type) :
                cluster_ids \in louvain_communities(nodes, E)}

cluster_atoms_linkage(all_coords, probs, threshold, eps, score_type) ==
    LET predicted_labels == PredictedLabels(probs, threshold)
        bind_coords == BoolIndex(all_coords, predicted_labels)
    IN  IF NumTrue(predicted_labels) = 0 THEN {ClusterNone}
        ELSE IF Len(bind_coords) # 1
             THEN RankAndReturn(all_coords, probs, predicted_labels,
                                AgglomerativeClustering(bind_coords, eps), score_type)
             ELSE {SingleAtom(all_coords, predicted_labels)}

(***************************************************************************)
(* Geometry kernel.                                                        *)
(***************************************************************************)
NoHull ==
    [none |-> TRUE, points |-> <<>>, lo |-> 0, hi |-> 0]

\* a hull is built from any number of points
ConvexHullRaises_never(points) ==
    FALSE

\* scipy's ConvexHull raises QhullError for fewer than four points and for
\* points that span no volume
ConvexHullRaises(points) ==
    Len(points) < HULL_MIN_POINTS \/ Cardinality(Range(points)) < 2

ConvexHull(points) ==
    [none |-> FALSE, points |-> points, lo |-> SetMin(Range(points)),
     hi |-> SetMax(Range(points))]

Volume(hull) ==
    hull.hi - hull.lo

\* hull.equations: rows <<normal, offset>> with normal*x + offset <= 0 inside
Equations(hull) ==
    <<<<1, -hull.hi>>, <<-1, hull.lo>>>>

\* the volume-weighted mean of the simplices' centroids: on a line the one
\* simplex of the hull's vertices is [lo, hi]
hull_center(hull) ==
    Rat(hull.lo + hull.hi, 2)

get_centroid(coords) ==
    Rat(SumSeq(coords), Len(coords))

center_of_mass(coords, masses) ==
    Rat(SumSeq([i \in DOMAIN coords |-> coords[i] * masses[i]]), SumSeq(masses))

\* the first entry instead of the smallest
RatMin_first(arr) ==
    arr[1]

\* np.min of a non-empty array of rationals
RatMin(arr) ==
    CHOOSE x \in Range(arr) : \A y \in Range(arr) : RatLE(x, y)

\* the index of the maximum instead of the minimum
np_argmin_farthest(arr) ==
    SetMin({i \in DOMAIN arr : \A j \in DOMAIN arr : RatLE(arr[j], arr[i])})

\* the last index of the minimum instead of the first
np_argmin_last(arr) ==
    SetMax({i \in DOMAIN arr : \A j \in DOMAIN arr : RatLE(arr[i], arr[j])})

\* np.argmin: the first index of the minimum (1-based here)
np_argmin(arr) ==
    SetMin({i \in DOMAIN arr : \A j \in DOMAIN arr : RatLE(arr[i], arr[j])})

DCA_dist(center, lig_coords) ==
    RatMin([i \in DOMAIN lig_coords |-> Dist(center, Int2Rat(lig_coords[i]))])

\* the linear program: maximise r subject to normal*x + |normal|*r <= -offset
cheb_center(halfspaces) ==
    LET upper == SetMin({-halfspaces[i][2] : i \in {j \in DOMAIN halfspaces :
                                                     halfspaces[j][1] > 0}})
        lower == SetMax({halfspaces[i][2] : i \in {j \in DOMAIN halfspaces :
                                                    halfspaces[j][1] < 0}})
    IN  [center |-> Rat(upper + lower, 2), radius |-> Rat(upper - lower, 2)]

\* ConvexHull(HalfspaceIntersection(halfspaces, center).intersections)
HalfspaceIntersection(halfspaces) ==
    LET upper == SetMin({-halfspaces[i][2] : i \in {j \in DOMAIN halfspaces :
                                                     halfspaces[j][1] > 0}})
        lower == SetMax({halfspaces[i][2] : i \in {j \in DOMAIN halfspaces :
                                                    halfspaces[j][1] < 0}})
    IN  [none |-> FALSE, points |-> <<lower, upper>>, lo |-> lower, hi |-> upper]

\* the intersection measured against the first hull alone
hull_jaccard_of_first(hull1, hull2, intersect_hull) ==
    Rat(Volume(intersect_hull), Volume(hull1))

hull_jaccard(hull1, hull2, intersect_hull) ==
    Rat(Volume(intersect_hull), Volume(hull1) + Volume(hull2) - Volume(intersect_hull))

\* the floor taken as exactly zero
volumetric_overlap_zero_floor(hull1, hull2) ==
    LET halfspaces == Equations(hull1) \o Equations(hull2)
        cc == cheb_center(halfspaces)
    IN  IF RatLE(cc.radius, Int2Rat(0))
        THEN [ret |-> Int2Rat(0), calls |-> <<"linprog">>]
        ELSE [ret |-> hull_jaccard(hull1, hull2, HalfspaceIntersection(halfspaces)),
              calls |-> <<"linprog", "HalfspaceIntersection", "ConvexHull">>]

\* ret is the value returned, calls the library calls made, in order
volumetric_overlap(hull1, hull2) ==
    LET halfspaces == Equations(hull1) \o Equations(hull2)
        cc == cheb_center(halfspaces)
    IN  IF RatLE(cc.radius, Int2Rat(RADIUS_FLOOR))
        THEN [ret |-> Int2Rat(0), calls |-> <<"linprog">>]
        ELSE [ret |-> hull_jaccard(hull1, hull2, HalfspaceIntersection(halfspaces)),
              calls |-> <<"linprog", "HalfspaceIntersection", "ConvexHull">>]

(***************************************************************************)
(* Centroid selector.                                                      *)
(***************************************************************************)
\* seq[:n] of Python
Take(seq, n) ==
    LET m == IF n >= 0 THEN (IF n < Len(seq) THEN n ELSE Len(seq))
             ELSE (IF Len(seq) + n > 0 THEN Len(seq) + n ELSE 0)
    IN  SubSeq(seq, 1, m)

\* np.unique(sorted_ids)[::-1][:n_sites+top_n_plus], without the ids the loop
\* skips (None, and c_id < 0); none tells that sorted_ids is None
\* the lowest ranks instead of the highest
TopIds_lowest(none, sorted_ids, n_sites, top_n_plus) ==
    IF none THEN <<>>
    ELSE SelectSeq(Take(np_unique(sorted_ids), n_sites + top_n_plus),
                   LAMBDA c : c >= 0)

TopIds(none, sorted_ids, n_sites, top_n_plus) ==
    IF none THEN <<>>
    ELSE SelectSeq(Take(Reverse(np_unique(sorted_ids)), n_sites + top_n_plus),
                   LAMBDA c : c >= 0)

RegionMask(sorted_ids, c_id) ==
    [a \in DOMAIN sorted_ids |-> sorted_ids[a] = c_id]

hulls_from_clusters(none, bind_coords, sorted_ids, n_sites, top_n_plus) ==
    LET top_ids == TopIds(none, sorted_ids, n_sites, top_n_plus)
        pts(j) == BoolIndex(bind_coords, RegionMask(sorted_ids, top_ids[j]))
    IN  IF \E j \in DOMAIN top_ids :
                Len(pts(j)) >= HULL_MIN_POINTS /\ ConvexHullRaises(pts(j))
        THEN [raised |-> "QhullError", points_list |-> <<>>, hull_list |-> <<>>,
              center_list |-> <<>>]
        ELSE [raised |-> "",
              points_list |-> [j \in DOMAIN top_ids |-> pts(j)],
              hull_list |-> [j \in DOMAIN top_ids |->
                    IF Len(pts(j)) < HULL_MIN_POINTS THEN NoHull ELSE ConvexHull(pts(j))],
              center_list |-> [j \in DOMAIN top_ids |->
                    IF Len(pts(j)) < HULL_MIN_POINTS THEN get_centroid(pts(j))
                    ELSE hull_center(ConvexHull(pts(j)))]]

\* the regions taken from the lowest rank up
center_of_probability_unreversed(bind_coords, bind_probs, sorted_ids, n_sites, top_n_plus, type) ==
    LET top_ids == TopIds_lowest(FALSE, sorted_ids, n_sites, top_n_plus)
        weights(j) ==
            LET cluster_probs == BoolIndex(bind_probs, RegionMask(sorted_ids, top_ids[j]))
            IN  IF type = "square"
                THEN [i \in DOMAIN cluster_probs |-> cluster_probs[i] * cluster_probs[i]]
                ELSE cluster_probs
    IN  IF top_ids # <<>> /\ Len(bind_probs) # Len(sorted_ids)
        THEN [raised |-> "IndexError", center_list |-> <<>>]
        ELSE [raised |-> "",
              center_list |-> [j \in DOMAIN top_ids |->
                    center_of_mass(BoolIndex(bind_coords, RegionMask(sorted_ids, top_ids[j])),
                                   weights(j))]]

\* bind_probs is predicted_probs[all_ids > -1]; a boolean index of another length
\* than the array raises IndexError
center_of_probability(bind_coords, bind_probs, sorted_ids, n_sites, top_n_plus, type) ==
    LET top_ids == TopIds(FALSE, sorted_ids, n_sites, top_n_plus)
        weights(j) ==
            LET cluster_probs == BoolIndex(bind_probs, RegionMask(sorted_ids, top_ids[j]))
            IN  IF type = "square"
                THEN [i \in DOMAIN cluster_probs |-> cluster_probs[i] * cluster_probs[i]]
                ELSE cluster_probs
    IN  IF top_ids # <<>> /\ Len(bind_probs) # Len(sorted_ids)
        THEN [raised |-> "IndexError", center_list |-> <<>>]
        ELSE [raised |-> "",
              center_list |-> [j \in DOMAIN top_ids |->
                    center_of_mass(BoolIndex(bind_coords, RegionMask(sorted_ids, top_ids[j])),
                                   weights(j))]]

(***************************************************************************)
(* multisite_metrics                                                       *)
(***************************************************************************)
\* what a call has produced when nothing has been computed yet
Blank ==
    [raised |-> "", none |-> FALSE, cluster_ids |-> <<>>, bind_coords |-> <<>>,
     sorted_ids |-> <<>>, all_ids |-> <<>>, true_hull_list |-> <<>>, predicted_points_list |-> <<>>,
     predicted_hull_list |-> <<>>, predicted_center_list |-> <<>>,
     surf_center_list |-> <<>>, closest_predictions |-> <<>>, DCC_lig |-> <<>>, DCC_site |-> <<>>, DCA |-> <<>>,
     volumetric_overlaps |-> <<>>, n_predicted |-> NaN]

\* the dispatch on method
ClusterBy(method, prot_coords, predicted_probs, threshold, eps, score_type) ==
    CASE method = "meanshift" ->
            cluster_atoms(prot_coords, predicted_probs, threshold, score_type)
      [] method = "dbscan" ->
            cluster_atoms_DBSCAN(prot_coords, predicted_probs, threshold, eps, score_type)
      [] method = "louvain" ->
            cluster_atoms_louvain(prot_coords, adj_matrix(prot_coords), predicted_probs,
                                  threshold, eps, score_type)
      [] method = "linkage" ->
            cluster_atoms_linkage(prot_coords, predicted_probs, threshold, eps, score_type)

\* an absent hull scored as zero overlap
OverlapFor_zero(predicted_hull, true_hull) ==
    IF ~predicted_hull.none THEN volumetric_overlap(predicted_hull, true_hull).ret
    ELSE Int2Rat(0)

\* the overlap appended for a true site and the hull of its matched region
OverlapFor(predicted_hull, true_hull) ==
    IF ~predicted_hull.none THEN volumetric_overlap(predicted_hull, true_hull).ret
    ELSE NaN

\* n_predicted = np.sum(np.unique(sorted_ids) > -1), 0 for None
CountPredicted(none, sorted_ids) ==
    IF none THEN 0 ELSE Cardinality({c \in Range(sorted_ids) : c > -1})

\* the surface mask ignored by the ligand metrics
LigandMetricCenters_full(surf, predicted_center_list, surf_center_list) ==
    predicted_center_list

\* the centres the columns of DCC_lig_matrix and DCA_matrix stand for
LigandMetricCenters(surf, predicted_center_list, surf_center_list) ==
    IF surf THEN surf_center_list ELSE predicted_center_list

\* the matching and the reduction, lines 344-409, from the centre lists; surf
\* tells whether a surface mask was given (surf_mask is not None), and then
\* the ligand metrics are taken from surf_center_list.  np.min over a row
\* without entries raises ValueError.
ScoreSites(b, true_hull_list, lig_coord_list, ligand_mass_list, predicted_hull_list, predicted_center_list, n_predicted, surf, surf_center_list) ==
    LET T == DOMAIN true_hull_list
        P == DOMAIN predicted_center_list
        lig_center_list == LigandMetricCenters(surf, predicted_center_list, surf_center_list)
        L == DOMAIN lig_center_list
        true_center_list == [t \in T |-> hull_center(true_hull_list[t])]
        ligand_center_list ==
            [t \in T |-> center_of_mass(lig_coord_list[t], ligand_mass_list[t])]
        DCC_site_matrix ==
            [t \in T |-> [j \in P |-> Dist(predicted_center_list[j], true_center_list[t])]]
        DCC_lig_matrix ==
            [t \in T |-> [j \in L |-> Dist(lig_center_list[j], ligand_center_list[t])]]
        DCA_matrix ==
            [t \in T |-> [j \in L |-> DCA_dist(lig_center_list[j], lig_coord_list[t])]]
        closest_predictions == [t \in T |-> np_argmin(DCC_site_matrix[t])]
    IN  IF Len(predicted_center_list) > 0
        THEN IF (T # {} /\ L = {})
                \/ \E t \in T : predicted_hull_list[closest_predictions[t]].none
                                /\ true_hull_list[t].none
             THEN [b EXCEPT !.raised = "ValueError"]
             ELSE [b EXCEPT
                    !.closest_predictions = closest_predictions,
                    !.DCC_lig = [t \in T |-> RatMin(DCC_lig_matrix[t])],
                    !.DCC_site = [t \in T |-> RatMin(DCC_site_matrix[t])],
                    !.DCA = [t \in T |-> RatMin(DCA_matrix[t])],
                    !.volumetric_overlaps = [t \in T |->
                        OverlapFor(predicted_hull_list[closest_predictions[t]],
                                   true_hull_list[t])],
                    !.n_predicted = Int2Rat(n_predicted)]
        ELSE [b EXCEPT
                !.DCC_lig = [t \in T |-> NaN],
                !.DCC_site = [t \in T |-> NaN],
                !.DCA = [t \in T |-> NaN],
                !.volumetric_overlaps = [t \in T |-> NaN],
                !.n_predicted = NaN]

\* multisite_metrics after the clustering call returned cl and, when a surface
\* mask was given (surf), the clustering of the masked atoms returned sf
AfterClustering(cl, lig_coord_list, ligand_mass_list, predicted_probs, site_coords_list, top_n_plus, centroid_type, surf, sf) ==
    LET b0 == [Blank EXCEPT !.none = cl.none, !.cluster_ids = cl.cluster_ids, !.bind_coords = cl.bind_coords,
                            !.sorted_ids = cl.sorted_ids, !.all_ids = cl.all_ids]
        n_sites == Len(site_coords_list)
        true_hull_list == [t \in DOMAIN site_coords_list |-> ConvexHull(site_coords_list[t])]
        h == hulls_from_clusters(cl.none, cl.bind_coords, cl.sorted_ids, n_sites, top_n_plus)
        sh == hulls_from_clusters(sf.none, sf.bind_coords, sf.sorted_ids, n_sites, top_n_plus)
        b1 == [b0 EXCEPT !.true_hull_list = true_hull_list,
                         !.predicted_points_list = h.points_list,
                         !.predicted_hull_list = h.hull_list,
                         !.predicted_center_list = h.center_list,
                         !.surf_center_list = IF surf THEN sh.center_list ELSE <<>>]
        cp == center_of_probability(cl.bind_coords,
                    BoolIndex(predicted_probs, [i \in DOMAIN cl.all_ids |-> cl.all_ids[i] > -1]),
                    cl.sorted_ids, n_sites, top_n_plus, centroid_type)
    IN  IF cl.raised # "" THEN [Blank EXCEPT !.raised = cl.raised]
        ELSE IF surf /\ sf.raised # "" THEN [b0 EXCEPT !.raised = sf.raised]
        ELSE IF \E t \in DOMAIN site_coords_list : ConvexHullRaises(site_coords_list[t])
        THEN [b0 EXCEPT !.raised = "QhullError"]
        ELSE IF h.raised # "" THEN [b0 EXCEPT !.raised = h.raised]
        ELSE IF surf /\ sh.raised # "" THEN [b0 EXCEPT !.raised = sh.raised]
        ELSE IF centroid_type # "hull" /\ cl.none
        THEN [b1 EXCEPT !.raised = "TypeError"]
        ELSE IF centroid_type # "hull" /\ cp.raised # ""
        THEN [b1 EXCEPT !.raised = cp.raised]
        ELSE ScoreSites(
                IF centroid_type # "hull"
                THEN [b1 EXCEPT !.predicted_center_list = cp.center_list] ELSE b1,
                true_hull_list, lig_coord_list, ligand_mass_list, h.hull_list,
                IF centroid_type # "hull" THEN cp.center_list ELSE h.center_list,
                CountPredicted(cl.none, cl.sorted_ids), surf, sh.center_list)

\* surf_mask=None is the empty sequence; a mask has one boolean per atom
SurfMaskGiven(surf_mask) ==
    surf_mask # <<>>

\* the clustering of the atoms the surface mask selects, lines 316-324
SurfClusterBy(method, prot_coords, predicted_probs, threshold, eps, score_type, surf_mask) ==
    IF SurfMaskGiven(surf_mask)
    THEN ClusterBy(method, BoolIndex(prot_coords, surf_mask),
                   BoolIndex(predicted_probs, surf_mask), threshold, eps, score_type)
    ELSE {ClusterNone}

\* every outcome of a call of multisite_metrics
multisite_metrics(prot_coords, lig_coord_list, ligand_mass_list, predicted_probs, site_coords_list, top_n_plus, threshold, eps, method, score_type, centroid_type, surf_mask) ==
    {AfterClustering(cl, lig_coord_list, ligand_mass_list, predicted_probs,
                     site_coords_list, top_n_plus, centroid_type,
                     SurfMaskGiven(surf_mask), sf) :
        cl \in ClusterBy(method, prot_coords, predicted_probs, threshold, eps, score_type),
        sf \in SurfClusterBy(method, prot_coords, predicted_probs, threshold, eps,
                             score_type, surf_mask)}

(***************************************************************************)
(* State: the arguments of the call in progress and what it produced.      *)
(***************************************************************************)
VARIABLES pc, call, prot_coords, predicted_probs, lig_coord_list, ligand_mass_list,
          site_coords_list, top_n_plus, eps, method, score_type, centroid_type,
          raised, none, cluster_ids, bind_coords, sorted_ids, all_ids, true_hull_list,
          predicted_points_list, predicted_hull_list, predicted_center_list,
          closest_predictions, DCC_lig, DCC_site, DCA, volumetric_overlaps, n_predicted,
          hull1, hull2, vo_ret, vo_calls, surf_mask, surf_center_list,
          is_label, labels, no_prediction_count, again,
          metric_array, success_rate, mean,
          listdir, outcome, configs, cfg_i, out, jobs, r_parallel, finished, results, npz,
          raw_file_names, val_names, train_names, fold_i, train_mask, val_mask, fold_ret

argVars ==
    <<prot_coords, predicted_probs, lig_coord_list, ligand_mass_list, site_coords_list,
      top_n_plus, eps, method, score_type, centroid_type, surf_mask>>

clusterVars ==
    <<raised, none, cluster_ids, bind_coords, sorted_ids, all_ids>>

scoreVars ==
    <<true_hull_list, predicted_points_list, predicted_hull_list, predicted_center_list,
      closest_predictions, DCC_lig, DCC_site, DCA, volumetric_overlaps, n_predicted,
      surf_center_list>>

voVars ==
    <<hull1, hull2, vo_ret, vo_calls>>

\* helper: the label option and array, and the flag it returns
helperVars ==
    <<is_label, labels, no_prediction_count>>

\* what a second evaluation of multisite_metrics on the same arguments returned
againVars ==
    <<again>>

\* extract_multi: its argument and the two values it returns
extractVars ==
    <<metric_array, success_rate, mean>>

\* the batch driver: the label directory, what evaluating each structure
\* gives, the (eps, top_n_plus) loop, the report file, the parallel jobs and
\* their results, the lists compute_metrics_for_all returned, the saved
\* bundles by file path
batchVars ==
    <<listdir, outcome, configs, cfg_i, out, jobs, r_parallel, finished, results, npz>>

\* k_fold: the file names of the dataset, the names listed in the validation
\* and the training file, the fold number, the two masks and the returned
\* subsets
foldVars ==
    <<raw_file_names, val_names, train_names, fold_i, train_mask, val_mask, fold_ret>>

vars ==
    <<pc, call, argVars, clusterVars, scoreVars, voVars, helperVars, againVars,
      extractVars, batchVars, foldVars>>

\* the true sites of a structure with their ligands: coordinates of the site
\* atoms, coordinates and masses of the ligand's heavy atoms
SiteA ==
    [site |-> <<2, 4, 6, 8>>, lig |-> <<6, 8>>, mass |-> <<12, 16>>]

SiteB ==
    [site |-> <<6, 8, 10, 12>>, lig |-> <<10>>, mass |-> <<12>>]

SiteSmall ==
    [site |-> <<2, 4, 6>>, lig |-> <<4>>, mass |-> <<12>>]

SiteLists ==
    {<<SiteA>>, <<SiteA, SiteB>>, <<SiteSmall>>}

TopNPlusValues ==
    {0, 1}

\* the probabilities the scoring runs draw from: below and above the threshold
MetricProbValues ==
    {4, 9}

\* nothing has been computed yet
NothingComputed ==
    /\ pc = "idle"
    /\ call = ""
    /\ raised = ""
    /\ none = FALSE
    /\ cluster_ids = <<>>
    /\ bind_coords = <<>>
    /\ sorted_ids = <<>>
    /\ all_ids = <<>>
    /\ true_hull_list = <<>>
    /\ predicted_points_list = <<>>
    /\ predicted_hull_list = <<>>
    /\ predicted_center_list = <<>>
    /\ closest_predictions = <<>>
    /\ DCC_lig = <<>>
    /\ DCC_site = <<>>
    /\ DCA = <<>>
    /\ volumetric_overlaps = <<>>
    /\ n_predicted = NaN
    /\ vo_ret = NaN
    /\ vo_calls = <<>>
    /\ surf_center_list = <<>>
    /\ no_prediction_count = 0
    /\ again = <<>>
    /\ success_rate = NaN
    /\ mean = NaN

\* helper is not in use: probabilities are not replaced by labels
HelperIdle ==
    /\ is_label = FALSE
    /\ labels = <<>>

\* extract_multi is not in use
ExtractIdle ==
    metric_array = <<>>

\* the batch driver is not in use
BatchIdle ==
    /\ listdir = <<>>
    /\ outcome = <<>>
    /\ configs = <<>>
    /\ cfg_i = 0
    /\ out = <<>>
    /\ jobs = <<>>
    /\ r_parallel = <<>>
    /\ finished = <<>>
    /\ results = <<>>
    /\ npz = <<>>

\* k_fold is not in use
FoldIdle ==
    /\ raw_file_names = <<>>
    /\ val_names = {}
    /\ train_names = {}
    /\ fold_i = 0
    /\ train_mask = <<>>
    /\ val_mask = <<>>
    /\ fold_ret = <<>>

\* nothing has been called yet, and the call to come has no surface mask
NotCalled ==
    /\ NothingComputed
    /\ surf_mask = <<>>
    /\ HelperIdle
    /\ ExtractIdle
    /\ BatchIdle
    /\ FoldIdle

\* the arguments of a call of multisite_metrics
Init ==
    /\ NotCalled
    /\ prot_coords = ProtCoords
    /\ predicted_probs \in [Atoms -> MetricProbValues]
    /\ \E sl \in SiteLists :
        /\ site_coords_list = [t \in DOMAIN sl |-> sl[t].site]
        /\ lig_coord_list = [t \in DOMAIN sl |-> sl[t].lig]
        /\ ligand_mass_list = [t \in DOMAIN sl |-> sl[t].mass]
    /\ top_n_plus \in TopNPlusValues
    /\ eps \in EpsValues
    /\ method \in Methods
    /\ score_type \in ScoreTypes
    /\ centroid_type \in CentroidTypes
    /\ hull1 = NoHull
    /\ hull2 = NoHull

Call_multisite_metrics ==
    /\ pc = "idle"
    /\ \E r \in multisite_metrics(prot_coords, lig_coord_list, ligand_mass_list, predicted_probs, site_coords_list, top_n_plus, THRESHOLD, eps, method, score_type, centroid_type, surf_mask) :
        /\ pc' = IF r.raised # "" THEN "raised" ELSE "returned"
        /\ call' = "multisite_metrics"
        /\ raised' = r.raised
        /\ none' = r.none
        /\ cluster_ids' = r.cluster_ids
        /\ bind_coords' = r.bind_coords
        /\ sorted_ids' = r.sorted_ids
        /\ all_ids' = r.all_ids
        /\ true_hull_list' = r.true_hull_list
        /\ predicted_points_list' = r.predicted_points_list
        /\ predicted_hull_list' = r.predicted_hull_list
        /\ predicted_center_list' = r.predicted_center_list
        /\ surf_center_list' = r.surf_center_list
        /\ closest_predictions' = r.closest_predictions
        /\ DCC_lig' = r.DCC_lig
        /\ DCC_site' = r.DCC_site
        /\ DCA' = r.DCA
        /\ volumetric_overlaps' = r.volumetric_overlaps
        /\ n_predicted' = r.n_predicted
        /\ UNCHANGED <<argVars, voVars, helperVars, againVars, extractVars, batchVars, foldVars>>

Next ==
    Call_multisite_metrics

Spec ==
    Init /\ [][Next]_vars

\* calls of multisite_metrics on probability fields whose positive atoms
\* differ in probability, with the default score_type and the small eps
InitProb ==
    /\ NotCalled
    /\ prot_coords = ProtCoords
    /\ predicted_probs \in [Atoms -> ProbValues \ {THRESHOLD}]
    /\ \E sl \in {<<SiteA>>, <<SiteA, SiteB>>} :
        /\ site_coords_list = [t \in DOMAIN sl |-> sl[t].site]
        /\ lig_coord_list = [t \in DOMAIN sl |-> sl[t].lig]
        /\ ligand_mass_list = [t \in DOMAIN sl |-> sl[t].mass]
    /\ top_n_plus \in TopNPlusValues
    /\ eps = SetMin(EpsValues)
    /\ method \in Methods
    /\ score_type = "mean"
    /\ centroid_type \in CentroidTypes
    /\ hull1 = NoHull
    /\ hull2 = NoHull

SpecProb ==
    InitProb /\ [][Next]_vars

\* a structure with five atoms packed within eps of one another and a sixth
\* far from them: DBSCAN clusters the five and labels the sixth noise
DenseCoords ==
    <<2, 3, 4, 5, 6, 12>>

InitNoise ==
    /\ NotCalled
    /\ prot_coords = DenseCoords
    /\ predicted_probs \in [DOMAIN DenseCoords -> MetricProbValues]
    /\ \E sl \in {<<SiteA>>, <<SiteA, SiteB>>} :
        /\ site_coords_list = [t \in DOMAIN sl |-> sl[t].site]
        /\ lig_coord_list = [t \in DOMAIN sl |-> sl[t].lig]
        /\ ligand_mass_list = [t \in DOMAIN sl |-> sl[t].mass]
    /\ top_n_plus \in TopNPlusValues
    /\ eps = SetMin(EpsValues)
    /\ method \in Methods
    /\ score_type = "mean"
    /\ centroid_type \in CentroidTypes
    /\ hull1 = NoHull
    /\ hull2 = NoHull

SpecNoise ==
    InitNoise /\ [][Next]_vars

\* calls of multisite_metrics with a surface mask, by the methods that use eps
InitSurf ==
    /\ NothingComputed
    /\ HelperIdle
    /\ ExtractIdle
    /\ BatchIdle
    /\ FoldIdle
    /\ prot_coords = ProtCoords
    /\ predicted_probs \in [Atoms -> MetricProbValues]
    /\ surf_mask \in [Atoms -> BOOLEAN]
    /\ \E sl \in {<<SiteA>>, <<SiteA, SiteB>>} :
        /\ site_coords_list = [t \in DOMAIN sl |-> sl[t].site]
        /\ lig_coord_list = [t \in DOMAIN sl |-> sl[t].lig]
        /\ ligand_mass_list = [t \in DOMAIN sl |-> sl[t].mass]
    /\ top_n_plus \in TopNPlusValues
    /\ eps = SetMin(EpsValues)
    /\ method \in Methods \ {"meanshift"}
    /\ score_type = "mean"
    /\ centroid_type = "hull"
    /\ hull1 = NoHull
    /\ hull2 = NoHull

SpecSurf ==
    InitSurf /\ [][Next]_vars

(***************************************************************************)
(* The clustering functions called on their own.                           *)
(***************************************************************************)
\* the arguments of a call of one of the clustering functions; method names
\* the function called
InitCluster ==
    /\ NotCalled
    /\ prot_coords = ProtCoords
    /\ predicted_probs \in [Atoms -> ProbValues]
    /\ site_coords_list = <<>>
    /\ lig_coord_list = <<>>
    /\ ligand_mass_list = <<>>
    /\ top_n_plus = 0
    /\ eps \in EpsValues
    /\ method \in Methods
    /\ score_type \in ScoreTypes
    /\ centroid_type = ""
    /\ hull1 = NoHull
    /\ hull2 = NoHull

\* a clustering function returns (or raises) r
ClusterReturns(name, r) ==
    /\ pc' = IF r.raised # "" THEN "raised" ELSE "returned"
    /\ call' = name
    /\ raised' = r.raised
    /\ none' = r.none
    /\ cluster_ids' = r.cluster_ids
    /\ bind_coords' = r.bind_coords
    /\ sorted_ids' = r.sorted_ids
    /\ all_ids' = r.all_ids
    /\ UNCHANGED <<argVars, scoreVars, voVars, helperVars, againVars, extractVars, batchVars, foldVars>>

Call_cluster_atoms ==
    /\ pc = "idle"
    /\ method = "meanshift"
    /\ \E r \in cluster_atoms(prot_coords, predicted_probs, THRESHOLD, score_type) :
        ClusterReturns("cluster_atoms", r)

Call_cluster_atoms_DBSCAN ==
    /\ pc = "idle"
    /\ method = "dbscan"
    /\ \E r \in cluster_atoms_DBSCAN(prot_coords, predicted_probs, THRESHOLD, eps, score_type) :
        ClusterReturns("cluster_atoms_DBSCAN", r)

Call_cluster_atoms_louvain ==
    /\ pc = "idle"
    /\ method = "louvain"
    /\ \E r \in cluster_atoms_louvain(prot_coords, adj_matrix(prot_coords), predicted_probs, THRESHOLD, eps, score_type) :
        ClusterReturns("cluster_atoms_louvain", r)

Call_cluster_atoms_linkage ==
    /\ pc = "idle"
    /\ method = "linkage"
    /\ \E r \in cluster_atoms_linkage(prot_coords, predicted_probs, THRESHOLD, eps, score_type) :
        ClusterReturns("cluster_atoms_linkage", r)

NextCluster ==
    \/ Call_cluster_atoms
    \/ Call_cluster_atoms_DBSCAN
    \/ Call_cluster_atoms_louvain
    \/ Call_cluster_atoms_linkage

SpecCluster ==
    InitCluster /\ [][NextCluster]_vars

(***************************************************************************)
(* volumetric_overlap called on two hulls.                                 *)
(***************************************************************************)
\* the largest coordinate of a hull in the calls of volumetric_overlap
MaxHullCoord ==
    6

Hulls ==
    {[none |-> FALSE, points |-> <<lo, hi>>, lo |-> lo, hi |-> hi] :
        lo \in 0 .. MaxHullCoord - 1, hi \in 1 .. MaxHullCoord} \ {h \in
    {[none |-> FALSE, points |-> <<lo, hi>>, lo |-> lo, hi |-> hi] :
        lo \in 0 .. MaxHullCoord - 1, hi \in 1 .. MaxHullCoord} : h.lo >= h.hi}

InitVO ==
    /\ NotCalled
    /\ prot_coords = ProtCoords
    /\ predicted_probs = <<>>
    /\ site_coords_list = <<>>
    /\ lig_coord_list = <<>>
    /\ ligand_mass_list = <<>>
    /\ top_n_plus = 0
    /\ eps = 0
    /\ method = ""
    /\ score_type = ""
    /\ centroid_type = ""
    /\ hull1 \in Hulls
    /\ hull2 \in Hulls

Call_volumetric_overlap ==
    /\ pc = "idle"
    /\ pc' = "returned"
    /\ call' = "volumetric_overlap"
    /\ vo_ret' = volumetric_overlap(hull1, hull2).ret
    /\ vo_calls' = volumetric_overlap(hull1, hull2).calls
    /\ UNCHANGED <<argVars, clusterVars, scoreVars, hull1, hull2, helperVars, againVars,
                   extractVars, batchVars, foldVars>>

NextVO ==
    Call_volumetric_overlap

SpecVO ==
    InitVO /\ [][NextVO]_vars

(***************************************************************************)
(* multisite_metrics evaluated twice on the same arguments.                *)
(***************************************************************************)
\* two pockets of two atoms each whose atoms alternate in the atom order
TwoPocketCoords ==
    <<2, 8, 4, 10>>

InitTwice ==
    /\ NotCalled
    /\ prot_coords = TwoPocketCoords
    /\ predicted_probs \in [DOMAIN TwoPocketCoords -> MetricProbValues]
    /\ \E sl \in {<<SiteA>>, <<SiteA, SiteB>>} :
        /\ site_coords_list = [t \in DOMAIN sl |-> sl[t].site]
        /\ lig_coord_list = [t \in DOMAIN sl |-> sl[t].lig]
        /\ ligand_mass_list = [t \in DOMAIN sl |-> sl[t].mass]
    /\ top_n_plus \in TopNPlusValues
    /\ eps \in EpsValues
    /\ method \in Methods
    /\ score_type = "mean"
    /\ centroid_type \in CentroidTypes
    /\ hull1 = NoHull
    /\ hull2 = NoHull

\* np.argsort is a function: in the second evaluation it orders the same
\* scores as it did in the first, so clusters with the same ids and the same
\* scores get the same ranks
SameSort(m) ==
    LET cand == BoolIndex(predicted_probs, PredictedLabels(predicted_probs, THRESHOLD))
    IN  (/\ Len(m.cluster_ids) = Len(cluster_ids)
         /\ Len(m.sorted_ids) = Len(sorted_ids)
         /\ Len(cluster_ids) = Len(sorted_ids)
         /\ Len(cand) = Len(cluster_ids)
         /\ ClusterProbs(m.cluster_ids, cand, score_type) = ClusterProbs(cluster_ids, cand, score_type)) =>
            \A a, b \in DOMAIN cluster_ids :
                m.cluster_ids[a] = cluster_ids[b] => m.sorted_ids[a] = sorted_ids[b]

\* the same call once more, in the same process or in another run
Call_multisite_metrics_again ==
    /\ call = "multisite_metrics"
    /\ pc \in {"returned", "raised"}
    /\ again = <<>>
    /\ \E m \in multisite_metrics(prot_coords, lig_coord_list, ligand_mass_list, predicted_probs, site_coords_list, top_n_plus, THRESHOLD, eps, method, score_type, centroid_type, surf_mask) :
        /\ SameSort(m)
        /\ again' = [raised |-> m.raised, DCC_lig |-> m.DCC_lig, DCC_site |-> m.DCC_site,
                     DCA |-> m.DCA, volumetric_overlaps |-> m.volumetric_overlaps,
                     n_predicted |-> m.n_predicted]
    /\ UNCHANGED <<pc, call, argVars, clusterVars, scoreVars, voVars, helperVars, extractVars,
                   batchVars, foldVars>>

NextTwice ==
    \/ Call_multisite_metrics
    \/ Call_multisite_metrics_again

SpecTwice ==
    InitTwice /\ [][NextTwice]_vars

(***************************************************************************)
(* helper: the evaluation of one structure inside compute_metrics_for_all. *)
(***************************************************************************)
\* with is_label the probabilities are the one-hot encoding of the labels
LabelProbs(use_labels, label_arr, probs) ==
    IF use_labels
    THEN [i \in DOMAIN label_arr |-> IF label_arr[i] = 0 THEN 0 ELSE 10]
    ELSE probs

\* np.all(np.isnan(arr)); true of an array without entries
np_all_isnan(arr) ==
    \A t \in DOMAIN arr : arr[t].nan

NoPredictionCount_overlaps_only(dcc_lig, dcc_site, dca, overlaps) ==
    IF np_all_isnan(overlaps) THEN 1 ELSE 0

\* the flag helper returns: 1 when all four metric arrays are all NaN
NoPredictionCount(dcc_lig, dcc_site, dca, overlaps) ==
    IF np_all_isnan(dcc_lig) /\ np_all_isnan(dcc_site) /\ np_all_isnan(dca) /\ np_all_isnan(overlaps)
    THEN 1
    ELSE 0

\* the set of outcomes of helper on one structure: an error of
\* multisite_metrics is printed and raised again, otherwise the metrics are
\* returned together with the flag
helper(coords, lig_coords, lig_masses, probs, use_labels, label_arr, site_coords, n_plus, cutoff, how, score, centroid, mask) ==
    {[ret |-> m,
      no_prediction_count |->
          IF m.raised # ""
          THEN 0
          ELSE NoPredictionCount(m.DCC_lig, m.DCC_site, m.DCA, m.volumetric_overlaps)] :
        m \in multisite_metrics(coords, lig_coords, lig_masses,
                                LabelProbs(use_labels, label_arr, probs), site_coords,
                                n_plus, THRESHOLD, cutoff, how, score, centroid, mask)}

\* a surface mask as SASAs > SASA_threshold gives it: the outer atoms buried
SurfMaskValues ==
    {[i \in Atoms |-> i \notin {1, MaxAtoms}], [i \in Atoms |-> i % 2 = 1]}

\* the files of one structure and the options of the run
InitHelper ==
    /\ NothingComputed
    /\ ExtractIdle
    /\ BatchIdle
    /\ FoldIdle
    /\ prot_coords = ProtCoords
    /\ is_label \in BOOLEAN
    /\ \/ is_label /\ labels \in [Atoms -> {0, 1}] /\ predicted_probs = [i \in Atoms |-> 4]
       \/ ~is_label /\ labels = [i \in Atoms |-> 0] /\ predicted_probs \in [Atoms -> MetricProbValues]
    /\ \E sl \in SiteLists :
        /\ site_coords_list = [t \in DOMAIN sl |-> sl[t].site]
        /\ lig_coord_list = [t \in DOMAIN sl |-> sl[t].lig]
        /\ ligand_mass_list = [t \in DOMAIN sl |-> sl[t].mass]
    /\ top_n_plus \in TopNPlusValues
    /\ eps = SetMin(EpsValues)
    /\ method \in Methods
    /\ surf_mask \in IF method = "meanshift" THEN {<<>>} ELSE {<<>>} \cup SurfMaskValues
    /\ score_type = "mean"
    /\ centroid_type \in CentroidTypes
    /\ hull1 = NoHull
    /\ hull2 = NoHull

Call_helper ==
    /\ pc = "idle"
    /\ \E h \in helper(prot_coords, lig_coord_list, ligand_mass_list, predicted_probs, is_label, labels, site_coords_list, top_n_plus, eps, method, score_type, centroid_type, surf_mask) :
        /\ pc' = IF h.ret.raised # "" THEN "raised" ELSE "returned"
        /\ call' = "helper"
        /\ raised' = h.ret.raised
        /\ none' = h.ret.none
        /\ cluster_ids' = h.ret.cluster_ids
        /\ bind_coords' = h.ret.bind_coords
        /\ sorted_ids' = h.ret.sorted_ids
        /\ all_ids' = h.ret.all_ids
        /\ true_hull_list' = h.ret.true_hull_list
        /\ predicted_points_list' = h.ret.predicted_points_list
        /\ predicted_hull_list' = h.ret.predicted_hull_list
        /\ predicted_center_list' = h.ret.predicted_center_list
        /\ surf_center_list' = h.ret.surf_center_list
        /\ closest_predictions' = h.ret.closest_predictions
        /\ DCC_lig' = h.ret.DCC_lig
        /\ DCC_site' = h.ret.DCC_site
        /\ DCA' = h.ret.DCA
        /\ volumetric_overlaps' = h.ret.volumetric_overlaps
        /\ n_predicted' = h.ret.n_predicted
        /\ no_prediction_count' = h.no_prediction_count
        /\ UNCHANGED <<argVars, voVars, is_label, labels, againVars, extractVars, batchVars, foldVars>>

NextHelper ==
    Call_helper

SpecHelper ==
    InitHelper /\ [][NextHelper]_vars

(***************************************************************************)
(* extract_multi: the summary of one metric over all structures.           *)
(***************************************************************************)
\* the distance below which a true site counts as found
SUCCESS_CUTOFF ==
    4

RatAdd(a, b) ==
    Rat(a.n * b.d + b.n * a.d, a.d * b.d)

RECURSIVE np_concatenate(_)
np_concatenate(arrs) ==
    IF Len(arrs) = 0 THEN <<>> ELSE Head(arrs) \o np_concatenate(Tail(arrs))

\* arr < x, elementwise: a comparison with NaN is False
np_less(arr, x) ==
    [i \in DOMAIN arr |-> ~arr[i].nan /\ RatLess(arr[i], Int2Rat(x))]

\* np.mean of a boolean array: the fraction of True entries; NaN if empty
np_mean_bool(mask) ==
    IF Len(mask) = 0
    THEN NaN
    ELSE Rat(Cardinality({i \in DOMAIN mask : mask[i]}), Len(mask))

RECURSIVE np_nansum(_)
np_nansum(arr) ==
    IF Len(arr) = 0
    THEN Int2Rat(0)
    ELSE IF Head(arr).nan
         THEN np_nansum(Tail(arr))
         ELSE RatAdd(Head(arr), np_nansum(Tail(arr)))

np_nanmean_nan_as_zero(arr) ==
    IF Len(arr) = 0
    THEN NaN
    ELSE LET t == np_nansum(arr) IN Rat(t.n, t.d * Len(arr))

\* np.nanmean: the mean of the entries that are not NaN; NaN if there are none
np_nanmean(arr) ==
    LET valid == {i \in DOMAIN arr : ~arr[i].nan}
        t == np_nansum(arr)
    IN  IF valid = {} THEN NaN ELSE Rat(t.n, t.d * Cardinality(valid))

\* np.concatenate of an empty list raises ValueError
extract_multi(arrs) ==
    IF Len(arrs) = 0
    THEN [raised |-> "ValueError", success_rate |-> NaN, mean |-> NaN]
    ELSE [raised |-> "",
          success_rate |-> np_mean_bool(np_less(np_concatenate(arrs), SUCCESS_CUTOFF)),
          mean |-> np_nanmean(np_concatenate(arrs))]

\* the values of a metric for one true site: NaN, a distance below the
\* cutoff, a distance at the cutoff
MetricValues ==
    {NaN, Int2Rat(3), Int2Rat(4)}

\* the most structures and the most true sites of a structure
MaxStructures ==
    2

MaxSites ==
    2

MetricArrays ==
    UNION {[1..k -> UNION {[1..n -> MetricValues] : n \in 1..MaxSites}] : k \in 0..MaxStructures}

\* no structure is loaded
NoStructure ==
    /\ surf_mask = <<>>
    /\ prot_coords = <<>>
    /\ predicted_probs = <<>>
    /\ site_coords_list = <<>>
    /\ lig_coord_list = <<>>
    /\ ligand_mass_list = <<>>
    /\ top_n_plus = 0
    /\ eps = 0
    /\ method = ""
    /\ score_type = ""
    /\ centroid_type = ""
    /\ hull1 = NoHull
    /\ hull2 = NoHull

InitExtract ==
    /\ NothingComputed
    /\ NoStructure
    /\ HelperIdle
    /\ BatchIdle
    /\ FoldIdle
    /\ metric_array \in MetricArrays

Call_extract_multi ==
    /\ pc = "idle"
    /\ pc' = IF extract_multi(metric_array).raised # "" THEN "raised" ELSE "returned"
    /\ call' = "extract_multi"
    /\ raised' = extract_multi(metric_array).raised
    /\ success_rate' = extract_multi(metric_array).success_rate
    /\ mean' = extract_multi(metric_array).mean
    /\ UNCHANGED <<argVars, none, cluster_ids, bind_coords, sorted_ids, all_ids, scoreVars,
                   voVars, helperVars, againVars, metric_array, batchVars, foldVars>>

NextExtract ==
    Call_extract_multi

SpecExtract ==
    InitExtract /\ [][NextExtract]_vars

(***************************************************************************)
(* The batch driver: __main__ from the opening of the report file on, and  *)
(* compute_metrics_for_all with its parallel jobs.  A structure is named   *)
(* by a number; what helper does on it is fixed by its files: it returns   *)
(* metrics for its true sites, with or without a predicted region, or it   *)
(* raises.  The metrics themselves are kept as tags (metric, structure,    *)
(* configuration).  The report is small enough to stay in the buffer of    *)
(* the file object until the file is closed.                               *)
(***************************************************************************)
\* the most structures in the label directory and the most (eps, top_n_plus)
\* configurations of a run
MaxFiles ==
    3

MaxConfigs ==
    2

\* os.listdir(path_to_labels): the structures in an order that is not the
\* order of their names
ListDirs ==
    {[i \in 1..n |-> n + 1 - i] : n \in 1..MaxFiles}

\* what evaluating a structure gives, and the number of its true sites; an
\* error may come from the files alone or from the clustering, and then it
\* depends on the configuration
StructureKinds ==
    {[kind |-> "scored", n_sites |-> 1], [kind |-> "scored", n_sites |-> 2],
     [kind |-> "no_prediction", n_sites |-> 1], [kind |-> "error", n_sites |-> 1],
     [kind |-> "error_after_first", n_sites |-> 1]}

\* helper raises on a structure of this kind under configuration cfg
Raises(kind, cfg) ==
    \/ kind.kind = "error"
    \/ kind.kind = "error_after_first" /\ cfg > 1

\* the tuple helper returns for structure name under configuration cfg
HelperResult(name, kind, cfg) ==
    [DCC_lig |-> <<"DCC_lig", name, cfg, kind.n_sites>>,
     DCC_site |-> <<"DCC_site", name, cfg, kind.n_sites>>,
     DCA |-> <<"DCA", name, cfg, kind.n_sites>>,
     volumetric_overlaps |-> <<"volumetric_overlaps", name, cfg, kind.n_sites>>,
     n_predicted |-> <<"n_predicted", name, cfg>>,
     no_prediction_count |-> IF kind.kind = "no_prediction" THEN 1 ELSE 0]

ParallelResults_completion_order(rp, fin) ==
    [k \in DOMAIN fin |-> rp[fin[k]]]

\* Parallel(...)(...) returns the results in the order the tasks were
\* submitted, whatever the order they finished in
ParallelResults(rp, fin) ==
    rp

\* zip(*r) and the second os.listdir
ReturnedLists(rp, dir, cfg) ==
    [cfg |-> cfg,
     DCC_lig |-> [i \in DOMAIN rp |-> rp[i].DCC_lig],
     DCC_site |-> [i \in DOMAIN rp |-> rp[i].DCC_site],
     DCA |-> [i \in DOMAIN rp |-> rp[i].DCA],
     volumetric_overlaps |-> [i \in DOMAIN rp |-> rp[i].volumetric_overlaps],
     n_predicted |-> [i \in DOMAIN rp |-> rp[i].n_predicted],
     no_prediction_count |-> [i \in DOMAIN rp |-> rp[i].no_prediction_count],
     names |-> dir]

HeaderLines_with_done(cfg) ==
    <<[tag |-> "Calculating", cfg |-> cfg], [tag |-> "Done", cfg |-> cfg]>>

\* the line written before compute_metrics_for_all is called
HeaderLines(cfg) ==
    <<[tag |-> "Calculating", cfg |-> cfg]>>

\* the line written when compute_metrics_for_all has returned
DoneLines(cfg) ==
    <<[tag |-> "Done", cfg |-> cfg]>>

\* the lines written after the bundle is saved
ReportTags ==
    <<"Method", "rule", "Cutoff", "EPS", "top n", "rule", "no predictions",
      "Average DCC_lig", "DCC_lig Success", "Average DCC_site", "DCC_site Success",
      "Average DCA", "DCA Success", "Average VO", "Average VO (DCC_site Success)",
      "Average n_predicted">>

ReportLines(cfg) ==
    [k \in DOMAIN ReportTags |-> [tag |-> ReportTags[k], cfg |-> cfg]]

\* the per-structure arrays of a metric differ in length
Ragged(list) ==
    \E i, j \in DOMAIN list : list[i][4] # list[j][4]

\* the file np.savez writes under configuration cfg: the name is made of
\* the command line, which is the same for every configuration of a run
BundlePath(cfg) ==
    "overlaps/argstring.npz"

\* everything the batch driver leaves alone
metricVars ==
    <<argVars, none, cluster_ids, bind_coords, sorted_ids, all_ids, scoreVars, voVars,
      helperVars, againVars, extractVars, foldVars>>

InitBatch ==
    /\ NothingComputed
    /\ NoStructure
    /\ HelperIdle
    /\ ExtractIdle
    /\ FoldIdle
    /\ listdir \in ListDirs
    /\ outcome \in [1..Len(listdir) -> StructureKinds]
    /\ configs \in {[c \in 1..n |-> c] : n \in 1..MaxConfigs}
    /\ cfg_i = 0
    /\ out = [written |-> <<>>, file |-> <<>>]
    /\ jobs = <<>>
    /\ r_parallel = <<>>
    /\ finished = <<>>
    /\ results = <<>>
    /\ npz = <<>>

\* the report file of an earlier run is removed and a new one opened
Main_open ==
    /\ pc = "idle"
    /\ pc' = "opened"
    /\ call' = "__main__"
    /\ cfg_i' = 1
    /\ UNCHANGED <<raised, metricVars, listdir, outcome, configs, out, jobs, r_parallel,
                   finished, results, npz>>

\* the next configuration: its header line is written and
\* compute_metrics_for_all hands one task per file to the workers
Main_header ==
    /\ pc = "opened"
    /\ cfg_i <= Len(configs)
    /\ pc' = "batch"
    /\ out' = [out EXCEPT !.written = @ \o HeaderLines(cfg_i)]
    /\ jobs' = [i \in DOMAIN listdir |-> "pending"]
    /\ r_parallel' = [i \in DOMAIN listdir |-> <<>>]
    /\ finished' = <<>>
    /\ UNCHANGED <<call, raised, metricVars, listdir, outcome, configs, cfg_i, results, npz>>

Worker_nan_on_error(i) ==
    /\ pc = "batch"
    /\ jobs[i] = "pending"
    /\ jobs' = [jobs EXCEPT ![i] = "done"]
    /\ r_parallel' = [r_parallel EXCEPT ![i] = HelperResult(listdir[i], outcome[listdir[i]], cfg_i)]
    /\ finished' = Append(finished, i)
    /\ UNCHANGED <<pc, call, raised, metricVars, listdir, outcome, configs, cfg_i, out,
                   results, npz>>

\* a worker runs helper on the i-th file: it returns its tuple, or raises
Worker(i) ==
    /\ pc = "batch"
    /\ jobs[i] = "pending"
    /\ IF Raises(outcome[listdir[i]], cfg_i)
       THEN /\ jobs' = [jobs EXCEPT ![i] = "failed"]
            /\ UNCHANGED r_parallel
       ELSE /\ jobs' = [jobs EXCEPT ![i] = "done"]
            /\ r_parallel' = [r_parallel EXCEPT ![i] = HelperResult(listdir[i], outcome[listdir[i]], cfg_i)]
    /\ finished' = Append(finished, i)
    /\ UNCHANGED <<pc, call, raised, metricVars, listdir, outcome, configs, cfg_i, out,
                   results, npz>>

\* the error of a task is raised by Parallel in the driver; nothing catches it
Parallel_raises ==
    /\ pc = "batch"
    /\ \E i \in DOMAIN jobs : jobs[i] = "failed"
    /\ pc' = "raised"
    /\ raised' = "Exception"
    /\ UNCHANGED <<call, metricVars, batchVars>>

\* every task returned: compute_metrics_for_all returns the lists and names
Collect ==
    /\ pc = "batch"
    /\ \A i \in DOMAIN jobs : jobs[i] = "done"
    /\ pc' = "computed"
    /\ results' = ReturnedLists(ParallelResults(r_parallel, finished), listdir, cfg_i)
    /\ UNCHANGED <<call, raised, metricVars, listdir, outcome, configs, cfg_i, out, jobs,
                   r_parallel, finished, npz>>

\* the timing line is written and the lists are saved with np.savez, which
\* turns each list into an array; whether a list of arrays of different
\* lengths becomes an array of objects or raises ValueError depends on the
\* numpy of the installation
Main_savez ==
    /\ pc = "computed"
    /\ out' = [out EXCEPT !.written = @ \o DoneLines(cfg_i)]
    /\ \/ /\ pc' = "saved"
          /\ npz' = [path \in DOMAIN npz \cup {BundlePath(cfg_i)} |->
                        IF path = BundlePath(cfg_i)
                        THEN [cfg |-> results.cfg, DCC_lig |-> results.DCC_lig,
                              DCC_site |-> results.DCC_site, DCA |-> results.DCA,
                              volumetric_overlaps |-> results.volumetric_overlaps,
                              n_predicted |-> results.n_predicted, names |-> results.names]
                        ELSE npz[path]]
          /\ UNCHANGED raised
       \/ /\ Ragged(results.DCC_lig)
          /\ pc' = "raised"
          /\ raised' = "ValueError"
          /\ UNCHANGED npz
    /\ UNCHANGED <<call, metricVars, listdir, outcome, configs, cfg_i, jobs, r_parallel,
                   finished, results>>

\* the lines of the configuration are written, and the loop goes on
Main_report ==
    /\ pc = "saved"
    /\ pc' = "opened"
    /\ out' = [out EXCEPT !.written = @ \o ReportLines(cfg_i)]
    /\ cfg_i' = cfg_i + 1
    /\ UNCHANGED <<call, raised, metricVars, listdir, outcome, configs, jobs, r_parallel,
                   finished, results, npz>>

\* out.close() after the last configuration: the buffer goes to the file
Main_close ==
    /\ pc = "opened"
    /\ cfg_i > Len(configs)
    /\ pc' = "closed"
    /\ out' = [out EXCEPT !.file = out.written]
    /\ UNCHANGED <<call, raised, metricVars, listdir, outcome, configs, cfg_i, jobs,
                   r_parallel, finished, results, npz>>

\* the interpreter ends on the uncaught error; the file object is not
\* closed by the program, and whether its buffer still reaches the file is
\* left to the finalisation of the interpreter
Main_exit ==
    /\ pc = "raised"
    /\ pc' = "exited"
    /\ \E flushed \in BOOLEAN :
        out' = [out EXCEPT !.file = IF flushed THEN out.written ELSE @]
    /\ UNCHANGED <<call, raised, metricVars, listdir, outcome, configs, cfg_i, jobs,
                   r_parallel, finished, results, npz>>

NextBatch ==
    \/ Main_open
    \/ Main_header
    \/ \E i \in DOMAIN jobs : Worker(i)
    \/ Parallel_raises
    \/ Collect
    \/ Main_savez
    \/ Main_report
    \/ Main_close
    \/ Main_exit

SpecBatch ==
    InitBatch /\ [][NextBatch]_vars

(***************************************************************************)
(* k_fold of train.py: the split of the dataset into a training and a      *)
(* validation subset.  A name is a sequence of characters; a structure of  *)
(* the dataset is named by its index (from 1) in raw_file_names, and the   *)
(* dataset has one structure for each raw file name.                       *)
(***************************************************************************)
\* name[:4]
Prefix(name) ==
    SubSeq(name, 1, IF Len(name) < 4 THEN Len(name) ELSE 4)

\* the indices, in order from idx on, of the names whose first four
\* characters are listed
RECURSIVE IndicesListed(_, _, _)
IndicesListed(names, listed, idx) ==
    IF idx > Len(names)
    THEN <<>>
    ELSE (IF Prefix(names[idx]) \in listed THEN <<idx>> ELSE <<>>)
         \o IndicesListed(names, listed, idx + 1)

\* the variant that keeps in training only what the training file lists
TrainMask_from_train_indices(n, train_indices, val_indices) ==
    [k \in 1..n |-> \E j \in DOMAIN train_indices : train_indices[j] = k]

\* train_mask = torch.ones(len(dataset)); train_mask[val_indices] = 0
TrainMask(n, train_indices, val_indices) ==
    [k \in 1..n |-> ~(\E j \in DOMAIN val_indices : val_indices[j] = k)]

\* val_mask = torch.ones(len(dataset)); val_mask[train_mask] = 0
ValMask(n, mask) ==
    [k \in 1..n |-> IF mask[k] THEN FALSE ELSE TRUE]

\* mask.sum()
MaskSum(mask) ==
    Cardinality({k \in DOMAIN mask : mask[k]})

\* dataset[mask]: the structures the mask selects, in order from idx on
RECURSIVE MaskSelect(_, _)
MaskSelect(mask, idx) ==
    IF idx > Len(mask)
    THEN <<>>
    ELSE (IF mask[idx] THEN <<idx>> ELSE <<>>) \o MaskSelect(mask, idx + 1)

k_fold(names, train_listed, val_listed, fold) ==
    LET val_indices == IndicesListed(names, val_listed, 1)
        train_indices == IndicesListed(names, train_listed, 1)
        tm == TrainMask(Len(names), train_indices, val_indices)
        vm == ValMask(Len(names), tm)
    IN  IF MaskSum(tm) > MaskSum(vm)
        THEN [raised |-> "", train_mask |-> tm, val_mask |-> vm,
              ret |-> <<MaskSelect(tm, 1), MaskSelect(vm, 1), fold>>]
        ELSE [raised |-> "AssertionError", train_mask |-> tm, val_mask |-> vm,
              ret |-> <<>>]

\* raw file names: two chains of one structure, a name of four characters,
\* a name shorter than four characters
FileNames ==
    {<<"1", "a", "b", "c", "_", "0">>, <<"1", "a", "b", "c", "_", "1">>,
     <<"2", "x", "y", "z">>, <<"3", "p", "q">>}

\* what a line of a split file can hold: a four-character code, a shorter
\* code, a whole file name
ListedNames ==
    {<<"1", "a", "b", "c">>, <<"2", "x", "y", "z">>, <<"3", "p", "q">>,
     <<"1", "a", "b", "c", "_", "0">>}

\* the most structures of the dataset
MaxRawFiles ==
    3

\* the arguments of a call of k_fold: a dataset of distinct raw files and
\* the two split files
InitFold ==
    /\ NothingComputed
    /\ NoStructure
    /\ HelperIdle
    /\ ExtractIdle
    /\ BatchIdle
    /\ raw_file_names \in {f \in UNION {[1..n -> FileNames] : n \in 0..MaxRawFiles} :
                             \A a, b \in DOMAIN f : a # b => f[a] # f[b]}
    /\ val_names \in SUBSET ListedNames
    /\ train_names \in SUBSET ListedNames
    /\ fold_i \in 0..1
    /\ train_mask = <<>>
    /\ val_mask = <<>>
    /\ fold_ret = <<>>

Call_k_fold ==
    /\ pc = "idle"
    /\ pc' = IF k_fold(raw_file_names, train_names, val_names, fold_i).raised # ""
             THEN "raised" ELSE "returned"
    /\ call' = "k_fold"
    /\ raised' = k_fold(raw_file_names, train_names, val_names, fold_i).raised
    /\ train_mask' = k_fold(raw_file_names, train_names, val_names, fold_i).train_mask
    /\ val_mask' = k_fold(raw_file_names, train_names, val_names, fold_i).val_mask
    /\ fold_ret' = k_fold(raw_file_names, train_names, val_names, fold_i).ret
    /\ UNCHANGED <<argVars, none, cluster_ids, bind_coords, sorted_ids, all_ids, scoreVars,
                   voVars, helperVars, againVars, extractVars, batchVars,
                   raw_file_names, val_names, train_names, fold_i>>

NextFold ==
    Call_k_fold

SpecFold ==
    InitFold /\ [][NextFold]_vars

(***************************************************************************)
(* Properties.                                                             *)
(***************************************************************************)
Called ==
    call = "multisite_metrics" /\ pc # "idle"

Scored ==
    call = "multisite_metrics" /\ pc = "returned"

SitesValid ==
    \A t \in DOMAIN site_coords_list : Len(site_coords_list[t]) >= HULL_MIN_POINTS

NoPositive ==
    \A i \in DOMAIN predicted_probs : ~(predicted_probs[i] > THRESHOLD)

AllNaN(arr) ==
    Len(arr) = Len(site_coords_list) /\ \A t \in DOMAIN arr : arr[t].nan

TrueCenter(t) ==
    hull_center(true_hull_list[t])

LigCenter(t) ==
    center_of_mass(lig_coord_list[t], ligand_mass_list[t])

\* the probabilities of the candidate atoms, in atom order
CandProbs ==
    BoolIndex(predicted_probs, PredictedLabels(predicted_probs, THRESHOLD))

\* the number of ranked regions
NumRegions ==
    Cardinality({c \in Range(sorted_ids) : c >= 0})

RegionPoints(r) ==
    BoolIndex(bind_coords, RegionMask(sorted_ids, r))

RegionProbs(r) ==
    BoolIndex(CandProbs, RegionMask(sorted_ids, r))

RegionScore(r) ==
    ClusterScore(CandProbs, RegionMask(sorted_ids, r), score_type)

\* C1: when no atom has p_positive > threshold (and every true site has a
\* hull), multisite_metrics raises no error and returns DCC_lig, DCC_site, DCA
\* and volumetric_overlaps as all-NaN arrays of length len(site_coords_list),
\* for every method and centroid_type.
C1_NoPositiveAllNaN ==
    (Called /\ NoPositive /\ SitesValid) =>
        /\ pc = "returned"
        /\ AllNaN(DCC_lig)
        /\ AllNaN(DCC_site)
        /\ AllNaN(DCA)
        /\ AllNaN(volumetric_overlaps)

\* C2: each true site t is matched to a considered predicted region whose
\* centre distance to t is minimal over all considered regions, whatever the
\* other sites are matched to, and DCC_site[t] is that minimum.
C2_NearestCentreMatch ==
    (Scored /\ Len(predicted_center_list) > 0) =>
        \A t \in DOMAIN site_coords_list :
            /\ closest_predictions[t] \in DOMAIN predicted_center_list
            /\ DCC_site[t] = Dist(predicted_center_list[closest_predictions[t]], TrueCenter(t))
            /\ \A j \in DOMAIN predicted_center_list :
                    RatLE(DCC_site[t], Dist(predicted_center_list[j], TrueCenter(t)))

\* two true sites matched to the same region although another region is considered
C2_Witness ==
    /\ Scored
    /\ Len(site_coords_list) = 2
    /\ Len(predicted_center_list) >= 2
    /\ closest_predictions[1] = closest_predictions[2]

\* C3 as stated: DCC_lig[t] and DCA[t] are measured from the centroid matched
\* to t for DCC_site.
C3_FromMatchedCentroid ==
    (Scored /\ Len(predicted_center_list) > 0) =>
        \A t \in DOMAIN site_coords_list :
            /\ DCC_lig[t] = Dist(predicted_center_list[closest_predictions[t]], LigCenter(t))
            /\ DCA[t] = DCA_dist(predicted_center_list[closest_predictions[t]], lig_coord_list[t])

\* C3 amended: DCC_lig[t] is the smallest distance from any considered
\* predicted centroid to the ligand's centre of mass, and DCA[t] the smallest
\* distance from any considered predicted centroid to any ligand atom; neither
\* is tied to the centroid matched for DCC_site.
C3_MinOverCentroids ==
    (Scored /\ Len(predicted_center_list) > 0) =>
        \A t \in DOMAIN site_coords_list :
            /\ \E j \in DOMAIN predicted_center_list :
                    DCC_lig[t] = Dist(predicted_center_list[j], LigCenter(t))
            /\ \A j \in DOMAIN predicted_center_list :
                    RatLE(DCC_lig[t], Dist(predicted_center_list[j], LigCenter(t)))
            /\ \E j \in DOMAIN predicted_center_list, a \in DOMAIN lig_coord_list[t] :
                    DCA[t] = Dist(predicted_center_list[j], Int2Rat(lig_coord_list[t][a]))
            /\ \A j \in DOMAIN predicted_center_list, a \in DOMAIN lig_coord_list[t] :
                    RatLE(DCA[t], Dist(predicted_center_list[j], Int2Rat(lig_coord_list[t][a])))

\* a site whose DCC_lig and DCA come from a centroid other than the matched one
C3_Witness ==
    /\ Scored
    /\ Len(predicted_center_list) > 1
    /\ \E t \in DOMAIN site_coords_list :
        /\ RatLess(DCC_lig[t], Dist(predicted_center_list[closest_predictions[t]], LigCenter(t)))
        /\ RatLess(DCA[t], DCA_dist(predicted_center_list[closest_predictions[t]], lig_coord_list[t]))

ClusterCalled ==
    call \in {"cluster_atoms", "cluster_atoms_DBSCAN", "cluster_atoms_louvain", "cluster_atoms_linkage"}

\* the clusters the backend produced (noise excluded); cluster_ids is empty
\* when the backend was not run (no candidate or a single candidate)
Clusters ==
    {c \in Range(cluster_ids) : c >= 0}

RankOf(c) ==
    sorted_ids[CHOOSE a \in DOMAIN cluster_ids : cluster_ids[a] = c]

ScoreOf(c) ==
    ClusterScore(CandProbs, [a \in DOMAIN cluster_ids |-> cluster_ids[a] = c], score_type)

\* the ranks relabel the k clusters one-to-one onto 0..k-1 and keep noise at -1
RanksArePermutation ==
    /\ Len(sorted_ids) = Len(cluster_ids)
    /\ \A a \in DOMAIN cluster_ids : (cluster_ids[a] < 0) <=> (sorted_ids[a] = -1)
    /\ \A a, b \in DOMAIN cluster_ids :
            cluster_ids[a] >= 0 =>
                ((cluster_ids[a] = cluster_ids[b]) <=> (sorted_ids[a] = sorted_ids[b]))
    /\ {sorted_ids[a] : a \in {b \in DOMAIN cluster_ids : cluster_ids[b] >= 0}}
            = 0 .. (Cardinality(Clusters) - 1)

\* C4 as stated: the ranks of the k non-noise clusters are a permutation of
\* 0..k-1 and a higher rank always means a strictly greater aggregate score.
C4_StrictlyIncreasingScore ==
    (ClusterCalled /\ pc = "returned" /\ Len(cluster_ids) > 0) =>
        /\ RanksArePermutation
        /\ \A c1, c2 \in Clusters :
                RankOf(c1) > RankOf(c2) => RatLess(ScoreOf(c2), ScoreOf(c1))

\* C4 amended: the ranks of the k non-noise clusters are a permutation of
\* 0..k-1 and a higher rank never means a lower aggregate score; clusters with
\* equal scores still get distinct ranks, in either order.
C4_NonDecreasingScore ==
    (ClusterCalled /\ pc = "returned" /\ Len(cluster_ids) > 0) =>
        /\ RanksArePermutation
        /\ \A c1, c2 \in Clusters :
                RankOf(c1) > RankOf(c2) => RatLE(ScoreOf(c2), ScoreOf(c1))

\* three clusters ranked 0, 1, 2 of which two have different scores
C4_Witness ==
    /\ ClusterCalled
    /\ pc = "returned"
    /\ Cardinality(Clusters) >= 3
    /\ \E c1, c2 \in Clusters : RankOf(c1) > RankOf(c2) /\ RatLess(ScoreOf(c2), ScoreOf(c1))

Min(a, b) ==
    IF a <= b THEN a ELSE b

\* C5: with k ranked regions, exactly the min(k, n_sites + top_n_plus)
\* highest-ranked ones are considered, listed from the highest rank down, in
\* the point, hull and centroid lists alike; noise yields no region and no
\* unconsidered region outscores a considered one.
C5_TopRankedRegions ==
    Scored =>
        LET k == IF none THEN 0 ELSE NumRegions
            m == Min(k, Len(site_coords_list) + top_n_plus)
        IN  /\ Len(predicted_points_list) = m
            /\ Len(predicted_hull_list) = m
            /\ Len(predicted_center_list) = m
            /\ \A j \in 1..m :
                /\ predicted_points_list[j] = RegionPoints(k - j)
                /\ predicted_points_list[j] # <<>>
                /\ predicted_hull_list[j].points \in {<<>>, RegionPoints(k - j)}
                /\ centroid_type = "prob" =>
                        predicted_center_list[j] =
                            center_of_mass(RegionPoints(k - j), RegionProbs(k - j))
                /\ centroid_type = "hull" =>
                        predicted_center_list[j] \in
                            {get_centroid(RegionPoints(k - j)),
                             hull_center(ConvexHull(RegionPoints(k - j)))}
                /\ \A r \in 0..(k - m - 1) : RatLE(RegionScore(r), RegionScore(k - j))

\* more ranked regions than n_sites + top_n_plus, noise present, and the
\* considered regions are a proper part of them
C5_Witness ==
    /\ Scored
    /\ ~none
    /\ NumRegions > Len(site_coords_list) + top_n_plus
    /\ Len(predicted_points_list) = Len(site_coords_list) + top_n_plus
    /\ Len(predicted_points_list) >= 2
    /\ \E r \in 0..(NumRegions - 1) : RatLess(RegionScore(r), RegionScore(NumRegions - 1))

\* C6: each of the four clustering functions raises no error and clusters
\* exactly the atoms with p_positive strictly greater than the threshold:
\* bind_coords holds those atoms and sorted_ids has one entry for each.
C6_CandidatesAboveThreshold ==
    (ClusterCalled /\ pc # "idle") =>
        /\ pc = "returned"
        /\ none => NoPositive
        /\ ~none =>
            /\ bind_coords = BoolIndex(prot_coords, PredictedLabels(predicted_probs, THRESHOLD))
            /\ Len(sorted_ids) = Len(bind_coords)

\* the region matched to true site t
Matched(t) ==
    closest_predictions[t]

SmallMatched(t) ==
    Len(predicted_points_list[Matched(t)]) < HULL_MIN_POINTS

\* the weights center_of_probability gives the atoms of the region matched to t
MatchedWeights(t) ==
    LET r == NumRegions - Matched(t)
    IN  IF centroid_type = "square"
        THEN [i \in DOMAIN RegionProbs(r) |-> RegionProbs(r)[i] * RegionProbs(r)[i]]
        ELSE RegionProbs(r)

C8_SmallTrueSiteRaises ==
    (Called /\ ~SitesValid) =>
        /\ pc = "raised"
        /\ raised # ""
        /\ DCC_lig = <<>>
        /\ DCC_site = <<>>
        /\ DCA = <<>>
        /\ volumetric_overlaps = <<>>

\* a three-atom true site while at least four atoms are predicted positive
C8_Witness ==
    /\ Called
    /\ ~SitesValid
    /\ raised = "QhullError"
    /\ Cardinality({i \in DOMAIN predicted_probs : predicted_probs[i] > THRESHOLD}) >= 4

\* C9: volumetric_overlap returns exactly 0, computing neither the half-space
\* intersection nor its hull, when the Chebyshev radius of the combined
\* half-spaces is at most the floor, and otherwise the Jaccard ratio
\* intersectionVolume / (volume1 + volume2 - intersectionVolume).
C9_FloorOrJaccard ==
    (call = "volumetric_overlap" /\ pc = "returned") =>
        LET radius == cheb_center(Equations(hull1) \o Equations(hull2)).radius
            lo == IF hull1.lo > hull2.lo THEN hull1.lo ELSE hull2.lo
            hi == IF hull1.hi < hull2.hi THEN hull1.hi ELSE hull2.hi
        IN  IF RatLE(radius, Int2Rat(RADIUS_FLOOR))
            THEN /\ vo_ret = Int2Rat(0)
                 /\ "HalfspaceIntersection" \notin Range(vo_calls)
                 /\ "ConvexHull" \notin Range(vo_calls)
            ELSE /\ vo_ret = Rat(hi - lo, Volume(hull1) + Volume(hull2) - (hi - lo))
                 /\ RatLess(Int2Rat(0), vo_ret)

\* two hulls that share a sliver no thicker than twice the floor: overlap 0
C9_Witness ==
    /\ call = "volumetric_overlap"
    /\ pc = "returned"
    /\ hull1.lo < hull2.lo
    /\ hull2.lo < hull1.hi
    /\ hull1.hi < hull2.hi
    /\ vo_ret = Int2Rat(0)

\* exactly four atoms are predicted positive and eps exceeds every distance
\* between two of them
Tetrahedron ==
    /\ Called
    /\ SitesValid
    /\ Cardinality({i \in DOMAIN predicted_probs : predicted_probs[i] > THRESHOLD}) = 4
    /\ \A i, j \in DOMAIN prot_coords : Abs(prot_coords[i] - prot_coords[j]) < eps

OneRegionOfFour ==
    /\ pc = "returned"
    /\ sorted_ids = <<0, 0, 0, 0>>
    /\ predicted_points_list = <<bind_coords>>
    /\ Len(bind_coords) = 4

C13_CountOfRanks ==
    Scored => n_predicted = Int2Rat(IF none THEN 0 ELSE NumRegions)

\* C20: when exactly one atom has p_positive above the threshold, each
\* clustering function returns without error one region of rank 0 holding that
\* atom: all_ids is 0 at that atom and -1 at every other atom.
C20_SingleCandidateRegion ==
    (/\ ClusterCalled
     /\ pc # "idle"
     /\ Cardinality({i \in DOMAIN predicted_probs : predicted_probs[i] > THRESHOLD}) = 1) =>
        /\ pc = "returned"
        /\ ~none
        /\ sorted_ids = <<0>>
        /\ all_ids = [i \in DOMAIN predicted_probs |->
                        IF predicted_probs[i] > THRESHOLD THEN 0 ELSE -1]

\* C11: with centroid_type 'prob' or 'square' and at least one candidate
\* atom, multisite_metrics returns without error, whatever atoms the
\* clustering labels noise, and the centroid of each considered region is the
\* mean of its member atoms weighted by their own p_positive (squared for
\* 'square').
C11_WeightedCentroidNoError ==
    (Called /\ SitesValid /\ ~NoPositive /\ centroid_type \in {"prob", "square"}) =>
        /\ pc = "returned"
        /\ \A j \in DOMAIN predicted_center_list :
            LET ps == RegionProbs(NumRegions - j)
                w == IF centroid_type = "square"
                     THEN [i \in DOMAIN ps |-> ps[i] * ps[i]] ELSE ps
            IN  predicted_center_list[j] = center_of_mass(RegionPoints(NumRegions - j), w)

\* the centroids a clustering of the surface-masked atoms can give: the
\* centre of a non-empty group of candidate atoms the mask selects
SurfaceCentroids ==
    LET cand == {i \in DOMAIN prot_coords : surf_mask[i] /\ predicted_probs[i] > THRESHOLD}
        pts(S) == BoolIndex(prot_coords, [i \in DOMAIN prot_coords |-> i \in S])
    IN  UNION {{get_centroid(pts(S)), hull_center(ConvexHull(pts(S)))} :
                S \in (SUBSET cand) \ {{}}}

MinDist(centers, x) ==
    RatMin([j \in DOMAIN centers |-> Dist(centers[j], x)])

\* C12: with a surface mask, DCC_site and the volumetric overlap of every
\* true site come from the regions clustered over all atoms, and DCC_lig and
\* DCA from the centroids of the regions clustered over the masked atoms only.
C12_SurfaceForLigandMetrics ==
    (Scored /\ SurfMaskGiven(surf_mask) /\ Len(predicted_center_list) > 0) =>
        /\ \A j \in DOMAIN surf_center_list : surf_center_list[j] \in SurfaceCentroids
        /\ \A j \in DOMAIN predicted_center_list :
                predicted_center_list[j] \in
                    {get_centroid(RegionPoints(NumRegions - j)),
                     hull_center(ConvexHull(RegionPoints(NumRegions - j)))}
        /\ Len(surf_center_list) > 0
        /\ \A t \in DOMAIN site_coords_list :
            /\ DCC_site[t] = MinDist(predicted_center_list, TrueCenter(t))
            /\ volumetric_overlaps[t] =
                    IF predicted_hull_list[Matched(t)].none THEN NaN
                    ELSE volumetric_overlap(predicted_hull_list[Matched(t)],
                                            true_hull_list[t]).ret
            /\ predicted_hull_list[Matched(t)].points \in
                    {<<>>, predicted_points_list[Matched(t)]}
            /\ DCC_lig[t] = MinDist(surf_center_list, LigCenter(t))
            /\ DCA[t] = RatMin([j \in DOMAIN surf_center_list |->
                                    DCA_dist(surf_center_list[j], lig_coord_list[t])])

\* a full-atom centroid nearer the ligand than every surface centroid, and a
\* surface centroid nearer the true site than every full-atom centroid
C12_Witness ==
    /\ Scored
    /\ SurfMaskGiven(surf_mask)
    /\ Len(predicted_center_list) > 0
    /\ \E t \in DOMAIN site_coords_list :
        /\ RatLess(MinDist(predicted_center_list, LigCenter(t)), DCC_lig[t])
        /\ RatLess(MinDist(surf_center_list, TrueCenter(t)), DCC_site[t])


HelperReturned ==
    call = "helper" /\ pc = "returned"

\* C14: for a structure with at least one true site, the flag helper
\* returns is 0 or 1, and it is 1 exactly when no predicted region was
\* available: a structure for which a region was scored gets 0
C14_FlagIffNoRegion ==
    (HelperReturned /\ Len(site_coords_list) >= 1) =>
        /\ no_prediction_count \in {0, 1}
        /\ no_prediction_count = 1 <=> (none \/ NumRegions = 0)
        /\ NumRegions > 0 => ~np_all_isnan(DCC_site)

\* a structure whose matched region is too small for a hull: its overlap is
\* NaN, its distances are not, and the flag is 0
C14_Witness ==
    /\ HelperReturned
    /\ NumRegions > 0
    /\ np_all_isnan(volumetric_overlaps)
    /\ no_prediction_count = 0


ExtractReturned ==
    call = "extract_multi" /\ pc = "returned"

Entries ==
    {e \in (DOMAIN metric_array) \X (1..MaxSites) : e[2] \in DOMAIN metric_array[e[1]]}

ValidEntries ==
    {e \in Entries : ~metric_array[e[1]][e[2]].nan}

RECURSIVE EntrySum(_)
EntrySum(S) ==
    IF S = {}
    THEN Int2Rat(0)
    ELSE LET e == CHOOSE x \in S : TRUE
         IN  RatAdd(metric_array[e[1]][e[2]], EntrySum(S \ {e}))

\* the array without structure s
Without(s) ==
    [k \in 1..(Len(metric_array) - 1) |-> IF k < s THEN metric_array[k] ELSE metric_array[k + 1]]

RatTimes(a, k) ==
    IF a.nan THEN NaN ELSE Rat(a.n * k, a.d)

\* C15: extract_multi returns as success rate the number of (structure,
\* true site) entries strictly below 4 divided by the number of all entries,
\* NaN entries included, and as mean the average of the entries that are not
\* NaN; an all-NaN structure leaves the mean as it is without it and scales
\* the success rate by the share of the other structures' entries
C15_SuccessRateAndMean ==
    ExtractReturned =>
        /\ success_rate = Rat(Cardinality({e \in ValidEntries :
                                  metric_array[e[1]][e[2]].n < SUCCESS_CUTOFF * metric_array[e[1]][e[2]].d}),
                              Cardinality(Entries))
        /\ mean.nan <=> ValidEntries = {}
        /\ ValidEntries # {} =>
               RatTimes(mean, Cardinality(ValidEntries)) = EntrySum(ValidEntries)
        /\ \A s \in DOMAIN metric_array :
               (Len(metric_array) > 1 /\ np_all_isnan(metric_array[s])) =>
                   /\ mean = extract_multi(Without(s)).mean
                   /\ RatTimes(success_rate, Cardinality(Entries)) =
                          RatTimes(extract_multi(Without(s)).success_rate,
                                   Cardinality(Entries) - Len(metric_array[s]))

\* a structure without prediction next to one with a found site (3) and a
\* missed site (4): the success rate is lower than without it, the mean is
\* that of the other structure, 7/2
C15_Witness ==
    /\ ExtractReturned
    /\ \E s \in DOMAIN metric_array : np_all_isnan(metric_array[s])
    /\ ValidEntries # {}
    /\ RatLess(success_rate, extract_multi(Without(CHOOSE s \in DOMAIN metric_array : np_all_isnan(metric_array[s]))).success_rate)
    /\ mean = Rat(7, 2)


\* the lists compute_metrics_for_all returned for the configuration in hand
Returned ==
    results # <<>> /\ results.cfg = cfg_i

\* the bundle saved for the configuration in hand
Saved ==
    \E path \in DOMAIN npz : npz[path].cfg = cfg_i

BatchRunning ==
    call = "__main__" /\ pc \notin {"idle", "opened"} /\ cfg_i <= Len(configs)

\* C16: when the evaluation of a structure raises, compute_metrics_for_all
\* raises too: the driver never gets lists for that configuration and saves
\* no bundle for it; lists that are returned hold an entry for every file
\* of the directory, and none of those files is one whose evaluation raises
C16_ErrorAbortsBatch ==
    BatchRunning =>
        /\ (\E i \in DOMAIN listdir : Raises(outcome[listdir[i]], cfg_i)) =>
               /\ ~Returned
               /\ ~Saved
               /\ pc \in {"batch", "raised", "exited"}
        /\ (\E i \in DOMAIN jobs : jobs[i] = "failed") =>
               (pc = "batch" => ENABLED Parallel_raises) /\ ~ENABLED Collect
        /\ Returned =>
               /\ Len(results.names) = Len(listdir)
               /\ \A k \in DOMAIN results.DCC_site :
                      /\ results.DCC_site[k][1] = "DCC_site"
                      /\ ~Raises(outcome[results.DCC_site[k][2]], cfg_i)

\* a run that raised in its second configuration after another structure of
\* that configuration had been evaluated
C16_Witness ==
    /\ pc = "raised"
    /\ raised = "Exception"
    /\ cfg_i = 2
    /\ \E i, j \in DOMAIN jobs : jobs[i] = "failed" /\ jobs[j] = "done"
    /\ ~Returned
    /\ ~Saved
    /\ npz # <<>>

\* C17: in whatever order the workers finished, the i-th entry of every
\* returned list is the result of the structure named names[i]
C17_EntriesFollowNames ==
    (call = "__main__" /\ results # <<>>) =>
        \A i \in DOMAIN results.names :
            LET h == HelperResult(results.names[i], outcome[results.names[i]], results.cfg)
            IN  /\ results.DCC_lig[i] = h.DCC_lig
                /\ results.DCC_site[i] = h.DCC_site
                /\ results.DCA[i] = h.DCA
                /\ results.volumetric_overlaps[i] = h.volumetric_overlaps
                /\ results.n_predicted[i] = h.n_predicted
                /\ results.no_prediction_count[i] = h.no_prediction_count

\* lists returned after the last file of the directory finished first
C17_Witness ==
    /\ pc = "computed"
    /\ Returned
    /\ Len(finished) = MaxFiles
    /\ finished[1] = MaxFiles
    /\ finished[MaxFiles] = 1
    /\ \E i \in DOMAIN results.names : results.no_prediction_count[i] = 1

\* every file of the configuration in hand has been evaluated
AllEvaluated ==
    /\ DOMAIN jobs = DOMAIN listdir
    /\ \A i \in DOMAIN jobs : jobs[i] = "done"

FirstEvaluation ==
    [raised |-> raised, DCC_lig |-> DCC_lig, DCC_site |-> DCC_site, DCA |-> DCA,
     volumetric_overlaps |-> volumetric_overlaps, n_predicted |-> n_predicted]

\* C19: two evaluations of multisite_metrics on the same inputs and
\* parameters return identical metrics, for every method
C19_TwoEvaluationsAgree ==
    again # <<>> => again = FirstEvaluation

\* the same for the three methods that do not draw random numbers
TwoEvaluationsAgreeSeeded ==
    (again # <<>> /\ method # "louvain") => again = FirstEvaluation

\* an evaluation leaves its arguments as they were
ArgumentsUnchanged ==
    [][UNCHANGED argVars]_vars


\* C21: volumetric_overlap is symmetric: the value returned for (hull1,
\* hull2) is the value for (hull2, hull1), with the same library calls made,
\* when the radius is at most the floor and when the Jaccard index is taken
C21_Symmetric ==
    (call = "volumetric_overlap" /\ pc = "returned") =>
        /\ vo_ret = volumetric_overlap(hull2, hull1).ret
        /\ vo_calls = volumetric_overlap(hull2, hull1).calls

\* two hulls of different volume that overlap by more than the floor
C21_Witness ==
    /\ call = "volumetric_overlap"
    /\ pc = "returned"
    /\ Volume(hull1) # Volume(hull2)
    /\ Len(vo_calls) = 3
    /\ RatLess(Int2Rat(0), vo_ret)
    /\ RatLess(vo_ret, Int2Rat(1))


\* no atom of the surface is a candidate: the surface clustering has no region
NoSurfaceCandidate ==
    /\ SurfMaskGiven(surf_mask)
    /\ \A i \in DOMAIN surf_mask : surf_mask[i] => ~(predicted_probs[i] > THRESHOLD)

\* C22: with a surface mask, when the full-atom clustering has a region but
\* the surface clustering has none, multisite_metrics raises no error and
\* returns DCC_lig and DCA all NaN, one entry per true site, and DCC_site
\* with a distance for every true site
C22_NoSurfaceRegionGivesNaN ==
    (Called /\ NoSurfaceCandidate /\ NumRegions > 0) =>
        /\ pc = "returned"
        /\ AllNaN(DCC_lig)
        /\ AllNaN(DCA)
        /\ Len(DCC_site) = Len(site_coords_list)
        /\ \A t \in DOMAIN DCC_site : ~DCC_site[t].nan


\* the position of atom i among the candidate atoms
CandIndex(i) ==
    Cardinality({j \in DOMAIN predicted_probs : j <= i /\ predicted_probs[j] > THRESHOLD})

\* C23: the all_ids a clustering function returns has one entry per atom of
\* the structure; it holds -1 for every atom that is not a candidate and for
\* every candidate the backend labelled noise, and for every other atom the
\* rank of the atom's own cluster (0 for the single candidate)
C23_AllIdsPerAtom ==
    (ClusterCalled /\ pc = "returned" /\ ~none) =>
        /\ Len(all_ids) = Len(prot_coords)
        /\ \A i \in DOMAIN all_ids :
               IF ~(predicted_probs[i] > THRESHOLD)
               THEN all_ids[i] = -1
               ELSE IF Len(cluster_ids) = 0
                    THEN all_ids[i] = 0
                    ELSE /\ cluster_ids[CandIndex(i)] < 0 => all_ids[i] = -1
                         /\ cluster_ids[CandIndex(i)] >= 0 =>
                                /\ all_ids[i] = RankOf(cluster_ids[CandIndex(i)])
                                /\ all_ids[i] \in 0 .. (Cardinality(Clusters) - 1)

\* two ranked regions next to an atom that is not a candidate
C23_Witness ==
    /\ ClusterCalled
    /\ pc = "returned"
    /\ Cardinality(Clusters) = 2
    /\ {-1, 0, 1} \subseteq Range(all_ids)
    /\ \E i \in DOMAIN all_ids : all_ids[i] = -1 /\ ~(predicted_probs[i] > THRESHOLD)

\* candidates that DBSCAN labelled noise next to an atom that is not one
C23_NoiseReached ==
    /\ ClusterCalled
    /\ pc = "returned"
    /\ \E i \in DOMAIN all_ids : predicted_probs[i] > THRESHOLD /\ cluster_ids # <<>> /\ all_ids[i] = -1
    /\ \E i \in DOMAIN all_ids : ~(predicted_probs[i] > THRESHOLD)


\* the considered centres at minimal distance from the centre of true site t
Nearest(t) ==
    {j \in DOMAIN predicted_center_list :
        Dist(predicted_center_list[j], TrueCenter(t)) = DCC_site[t]}

\* the rank of the region at index j of the predicted lists
ListRank(j) ==
    CHOOSE r \in 0 .. (NumRegions - 1) : RegionPoints(r) = predicted_points_list[j]

\* the match of a tie: the first of the nearest centres, which has the
\* highest rank among them, and whose hull gives the overlap
TieGoesToFirst(t) ==
    /\ Matched(t) = SetMin(Nearest(t))
    /\ \A j \in Nearest(t) \ {Matched(t)} : ListRank(Matched(t)) > ListRank(j)
    /\ volumetric_overlaps[t] =
           OverlapFor(predicted_hull_list[Matched(t)], true_hull_list[t])

\* C24: when two considered centres are at equal minimal distance from a
\* true site's centre, the site is matched to the one that comes first in the
\* predicted list, the region of higher rank and higher aggregate score, and
\* that region's hull is used for the site's overlap
C24_TieToHigherScore ==
    (Scored /\ Len(predicted_center_list) > 0) =>
        \A t \in DOMAIN site_coords_list :
            /\ TieGoesToFirst(t)
            /\ \A j \in Nearest(t) \ {Matched(t)} :
                   RatLess(RegionScore(ListRank(j)), RegionScore(ListRank(Matched(t))))

\* C24 (amended): when two considered centres are at equal minimal distance
\* from a true site's centre, the site is matched to the one that comes first
\* in the predicted list, the region of higher rank, whose aggregate score is
\* higher or equal, and that region's hull is used for the site's overlap
C24_TieToHigherRank ==
    (Scored /\ Len(predicted_center_list) > 0) =>
        \A t \in DOMAIN site_coords_list :
            /\ TieGoesToFirst(t)
            /\ \A j \in Nearest(t) \ {Matched(t)} :
                   RatLE(RegionScore(ListRank(j)), RegionScore(ListRank(Matched(t))))

\* a true site with two nearest centres of different score
C24_Witness ==
    /\ Scored
    /\ \E t \in DOMAIN site_coords_list :
        /\ Cardinality(Nearest(t)) >= 2
        /\ \E j \in Nearest(t) :
               RatLess(RegionScore(ListRank(j)), RegionScore(ListRank(Matched(t))))


\* the centre the centroid mode gives the region at index j of the point list
CentreOfListed(j) ==
    LET ps == RegionProbs(ListRank(j))
    IN  CASE centroid_type = "hull" ->
                IF Len(predicted_points_list[j]) < HULL_MIN_POINTS
                THEN get_centroid(predicted_points_list[j])
                ELSE hull_center(ConvexHull(predicted_points_list[j]))
          [] centroid_type = "prob" -> center_of_mass(predicted_points_list[j], ps)
          [] centroid_type = "square" ->
                center_of_mass(predicted_points_list[j], [i \in DOMAIN ps |-> ps[i] * ps[i]])

\* C25: in every centroid mode index j of the centre list and index j of
\* the hull list refer to the same region, so the hull used for a true
\* site's overlap belongs to the region whose centre was matched to the site
C25_CentreAndHullAligned ==
    (Scored /\ Len(predicted_center_list) > 0) =>
        /\ Len(predicted_hull_list) = Len(predicted_center_list)
        /\ Len(predicted_points_list) = Len(predicted_center_list)
        /\ \A j \in DOMAIN predicted_center_list :
               /\ predicted_center_list[j] = CentreOfListed(j)
               /\ predicted_hull_list[j] =
                      IF Len(predicted_points_list[j]) < HULL_MIN_POINTS
                      THEN NoHull
                      ELSE ConvexHull(predicted_points_list[j])
        /\ \A t \in DOMAIN site_coords_list :
               /\ DCC_site[t] = Dist(CentreOfListed(Matched(t)), TrueCenter(t))
               /\ volumetric_overlaps[t] =
                      OverlapFor(predicted_hull_list[Matched(t)], true_hull_list[t])

\* weighted centres of two regions, the second of which is matched to a site
C25_Witness ==
    /\ Scored
    /\ centroid_type \in {"prob", "square"}
    /\ Len(predicted_center_list) >= 2
    /\ predicted_center_list[1] # predicted_center_list[2]
    /\ \E t \in DOMAIN site_coords_list : Matched(t) = 2
    /\ \E j \in DOMAIN predicted_points_list :
           predicted_center_list[j] # get_centroid(predicted_points_list[j])

\* a region with a hull matched to a site and scored with an overlap
C25_HullReached ==
    /\ Scored
    /\ Len(predicted_center_list) > 0
    /\ \E t \in DOMAIN site_coords_list :
           ~predicted_hull_list[Matched(t)].none /\ ~volumetric_overlaps[t].nan


\* C26: after a run over several configurations the bundle of each of them
\* is still on disk: saving a later bundle does not overwrite an earlier one
C26_EveryBundleKept ==
    (call = "__main__" /\ pc = "closed") =>
        \A c \in DOMAIN configs : \E path \in DOMAIN npz : npz[path].cfg = c


FoldCalled ==
    call = "k_fold" /\ pc # "idle"

\* the structures of the dataset whose 4-character name prefix is listed in
\* the validation file
ValidationListed ==
    {k \in DOMAIN raw_file_names :
        \E v \in val_names :
            /\ Len(v) <= 4
            /\ Len(v) <= Len(raw_file_names[k])
            /\ Len(v) = 4 \/ Len(v) = Len(raw_file_names[k])
            /\ \A c \in 1..Len(v) : v[c] = raw_file_names[k][c]}

SetOf(seq) ==
    {seq[j] : j \in DOMAIN seq}

Ascending(seq) ==
    \A a, b \in DOMAIN seq : a < b => seq[a] < seq[b]

\* C27: k_fold splits the dataset into two disjoint subsets that cover it:
\* validation is exactly the structures whose 4-character name prefix is in
\* the validation file, training is every other structure whatever the
\* training file lists, and the call fails its assertion unless training is
\* strictly larger than validation
C27_SplitByValidationFile ==
    FoldCalled =>
        /\ DOMAIN train_mask = DOMAIN raw_file_names
        /\ DOMAIN val_mask = DOMAIN raw_file_names
        /\ \A k \in DOMAIN raw_file_names :
              /\ val_mask[k] <=> k \in ValidationListed
              /\ train_mask[k] <=> k \notin ValidationListed
        /\ pc = "raised" <=>
              ~(Len(raw_file_names) - Cardinality(ValidationListed)
                    > Cardinality(ValidationListed))
        /\ pc = "raised" => raised = "AssertionError" /\ fold_ret = <<>>
        /\ pc = "returned" =>
              /\ Len(fold_ret) = 3
              /\ SetOf(fold_ret[1]) = DOMAIN raw_file_names \ ValidationListed
              /\ SetOf(fold_ret[2]) = ValidationListed
              /\ SetOf(fold_ret[1]) \cap SetOf(fold_ret[2]) = {}
              /\ SetOf(fold_ret[1]) \cup SetOf(fold_ret[2]) = DOMAIN raw_file_names
              /\ Ascending(fold_ret[1]) /\ Ascending(fold_ret[2])
              /\ fold_ret[3] = fold_i

\* a returned split with a validation structure that the training file
\* lists too and a training structure that the training file does not list
C27_Witness ==
    /\ call = "k_fold" /\ pc = "returned"
    /\ \E k \in SetOf(fold_ret[2]) : Prefix(raw_file_names[k]) \in train_names
    /\ \E k \in SetOf(fold_ret[1]) : Prefix(raw_file_names[k]) \notin train_names
    /\ \E v \in val_names : Len(v) > 4

\* a call that fails its assertion on a dataset that is not empty
C27_AssertionReached ==
    /\ call = "k_fold" /\ pc = "raised"
    /\ Len(raw_file_names) > 1

=============================================================================
